---- MODULE Spec2Model ----
(***************************************************************************)
(* Model of the resume analyzer of the recruiting backend                  *)
(* (app/services/resume_analyzer.py): the document text extractor, the     *)
(* signal extractor, the similarity scorer and the match engine.           *)
(*                                                                         *)
(* A text is a sequence of characters; a character is a one-character      *)
(* string, or "U+XXXX" for a character outside printable ASCII.  A byte    *)
(* payload is a sequence of integers in 0..255.                            *)
(***************************************************************************)
EXTENDS Integers, Sequences, FiniteSets, TLC

VARIABLES
    pc,                   \* position of the caller: "call" before, "done" after
    doc,                  \* extract_text_from_file: the uploaded document
    filename,             \* extract_text_from_file: the declared file name
    extraction,           \* extract_text_from_file: the outcome of the call
    similarity_pipeline,  \* resume_analyzer.similarity_pipeline: "None" or "loaded"
    resume_text,          \* analyze_resume_match: the resume's text
    job_description,      \* analyze_resume_match: the job description
    required_skills,      \* analyze_resume_match: the required skills
    required_experience,  \* analyze_resume_match: the required years
    model_output,         \* what the embedding model yields for the two texts
    calls,                \* number of calls of analyze_resume_match so far
    similarity_score,     \* analyze_resume_match: similarity_score of the last call
    result,               \* outcome of the last call of analyze_resume_match
    prev_result,          \* outcome of the call before the last
    signal_text,          \* signal extraction: the text handed to the extractors
    experience_years,     \* extract_experience_years: whether it returned, and what
    skills_found,         \* extract_skills_from_text: whether it returned, and what
    thread_pc,            \* concurrent calculate_similarity: position of each thread
    thread_value,         \* concurrent calculate_similarity: value each thread returned last
    models_constructed,   \* number of embedding models constructed in the process
    batch,                \* analyze_multiple_resumes: resume_files, in request order
    position,             \* analyze_multiple_resumes: index of the next file of the loop
    analyses,             \* analyze_multiple_resumes: the list analyses
    counters,             \* analyze_multiple_resumes: matches, partial_matches, not_matches
    db_analyses,          \* the rows of the resume_analyses table
    server_log,           \* what the handler printed
    response,             \* analyze_multiple_resumes: the response, once returned
    requisitions,         \* the rows of the requisitions table
    job_posts,            \* the rows of the job_posts table
    job_request,          \* create_job_post: the last request handled
    job_response          \* create_job_post: the answer to the last request

extract_vars == <<pc, doc, filename, extraction>>
match_vars == <<similarity_pipeline, resume_text, job_description, required_skills,
                required_experience, model_output, calls, similarity_score,
                result, prev_result>>
signal_vars == <<signal_text, experience_years, skills_found>>
thread_vars == <<thread_pc, thread_value, models_constructed>>
bulk_vars == <<batch, position, analyses, counters, db_analyses, server_log, response>>
job_vars == <<requisitions, job_posts, job_request, job_response>>
vars == <<extract_vars, match_vars, signal_vars, thread_vars, bulk_vars, job_vars>>

\* the variables each specification leaves alone
outside_extract_vars == <<match_vars, signal_vars, thread_vars, bulk_vars, job_vars>>
outside_match_vars == <<extract_vars, signal_vars, thread_vars, bulk_vars, job_vars>>
outside_signal_vars == <<extract_vars, match_vars, thread_vars, bulk_vars, job_vars>>
outside_thread_vars ==
    <<extract_vars, signal_vars, bulk_vars, job_vars, resume_text, job_description, required_skills,
      required_experience, model_output, calls, similarity_score, result, prev_result>>
outside_bulk_vars ==
    <<extract_vars, signal_vars, thread_vars, job_vars, resume_text, job_description,
      required_skills, required_experience, model_output, calls, similarity_score,
      result, prev_result>>
outside_job_vars == <<extract_vars, match_vars, signal_vars, thread_vars, bulk_vars>>

(***************************************************************************)
(* Bounds of the model.                                                    *)
(***************************************************************************)
MaxPayloadLen == 3
MaxPages == 2
MaxParas == 1
MaxSections == 1
MaxNodes == 1
MaxCalls == 2
NumThreads == 2
MaxThreadCalls == 2
MaxFiles == 3
MaxJobPosts == 2
MaxDbRaises == 1

(***************************************************************************)
(* Characters.                                                             *)
(***************************************************************************)
LowerAlpha == <<"a","b","c","d","e","f","g","h","i","j","k","l","m",
                "n","o","p","q","r","s","t","u","v","w","x","y","z">>
UpperAlpha == <<"A","B","C","D","E","F","G","H","I","J","K","L","M",
                "N","O","P","Q","R","S","T","U","V","W","X","Y","Z">>
DigitChars == {"0","1","2","3","4","5","6","7","8","9"}

Range(s) == {s[i] : i \in DOMAIN s}

LowerSet == Range(LowerAlpha) \cup {"U+00E2"}
UpperSet == Range(UpperAlpha) \cup {"U+00C2"}

\* str.lower() of one character
LowerOf == [c \in UpperSet |->
              IF c = "U+00C2" THEN "U+00E2"
              ELSE LowerAlpha[CHOOSE i \in 1..26 : UpperAlpha[i] = c]]
\* str.upper() of one character
UpperOf == [c \in LowerSet |->
              IF c = "U+00E2" THEN "U+00C2"
              ELSE UpperAlpha[CHOOSE i \in 1..26 : LowerAlpha[i] = c]]

\* the ligature fi (U+FB01): a lower-case letter whose upper- and title-case
\* forms have two characters
Ligatures == {"U+FB01"}

ToLowerChar(c) == IF c \in UpperSet THEN LowerOf[c] ELSE c
ToUpperChar(c) == IF c \in LowerSet THEN UpperOf[c] ELSE c

\* str.lower()
Lower(s) == [i \in 1..Len(s) |-> ToLowerChar(s[i])]

\* the characters str.isspace() accepts (those the model's code points reach)
SpaceChars == {" ", "\t", "\n", "\r", "\f", "U+000B", "U+001C", "U+001D",
               "U+001E", "U+001F", "U+0085", "U+00A0"}

IsSpace(c) == c \in SpaceChars

RECURSIVE LStrip(_)
LStrip(s) == IF s # <<>> /\ IsSpace(Head(s)) THEN LStrip(Tail(s)) ELSE s

RECURSIVE RStrip(_)
RStrip(s) == IF s # <<>> /\ IsSpace(s[Len(s)])
             THEN RStrip(SubSeq(s, 1, Len(s) - 1)) ELSE s

\* a strip that forgets the trailing side
Strip_LeadingOnly(s) == LStrip(s)

\* str.strip()
Strip(s) == RStrip(LStrip(s))

\* the set of sequences over S of length at most n
RECURSIVE SeqsUpTo(_, _)
SeqsUpTo(S, n) == IF n = 0 THEN {<<>>}
                  ELSE LET shorter == SeqsUpTo(S, n - 1)
                       IN  shorter \cup {Append(s, x) : s \in shorter, x \in S}

RECURSIVE Concat(_)
Concat(ss) == IF ss = <<>> THEN <<>> ELSE Head(ss) \o Concat(Tail(ss))

(***************************************************************************)
(* Code points and codecs (bytes.decode).                                  *)
(***************************************************************************)
AsciiPrintable ==
    <<" ", "!", "\"", "#", "$", "%", "&", "'", "(", ")", "*", "+", ",", "-", ".", "/",
      "0", "1", "2", "3", "4", "5", "6", "7", "8", "9", ":", ";", "<", "=", ">", "?",
      "@", "A", "B", "C", "D", "E", "F", "G", "H", "I", "J", "K", "L", "M", "N", "O",
      "P", "Q", "R", "S", "T", "U", "V", "W", "X", "Y", "Z", "[", "\\", "]", "^", "_",
      "U+0060", "a", "b", "c", "d", "e", "f", "g", "h", "i", "j", "k", "l", "m", "n", "o",
      "p", "q", "r", "s", "t", "u", "v", "w", "x", "y", "z", "{", "|", "}", "~">>

\* the code points the model gives a character to
CodePoints == (32..126) \cup {9, 10, 11, 12, 13, 28, 29, 30, 31,
                              133, 160, 194, 226, 8230, 65533}

\* chr()
Chr == [cp \in CodePoints |->
          IF cp \in 32..126 THEN AsciiPrintable[cp - 31]
          ELSE CASE cp = 9 -> "\t"
                 [] cp = 10 -> "\n"
                 [] cp = 11 -> "U+000B"
                 [] cp = 12 -> "\f"
                 [] cp = 13 -> "\r"
                 [] cp = 28 -> "U+001C"
                 [] cp = 29 -> "U+001D"
                 [] cp = 30 -> "U+001E"
                 [] cp = 31 -> "U+001F"
                 [] cp = 133 -> "U+0085"
                 [] cp = 160 -> "U+00A0"
                 [] cp = 194 -> "U+00C2"
                 [] cp = 226 -> "U+00E2"
                 [] cp = 8230 -> "U+2026"
                 [] cp = 65533 -> "U+FFFD"]

\* ord()
Ord(c) == CHOOSE cp \in CodePoints : Chr[cp] = c

ChrAll(cps) == [i \in 1..Len(cps) |-> Chr[cps[i]]]

\* number of bytes of the UTF-8 sequence a lead byte announces (0: no lead byte)
Utf8Need(b0) == IF b0 < 128 THEN 1
                ELSE IF b0 \in 194..223 THEN 2
                ELSE IF b0 \in 224..239 THEN 3
                ELSE IF b0 \in 240..244 THEN 4
                ELSE 0

\* the range allowed for the k-th byte (k >= 2) after lead byte b0
Utf8ContLo(b0, k) == IF k = 2 /\ b0 = 224 THEN 160
                     ELSE IF k = 2 /\ b0 = 240 THEN 144 ELSE 128
Utf8ContHi(b0, k) == IF k = 2 /\ b0 = 237 THEN 159
                     ELSE IF k = 2 /\ b0 = 244 THEN 143 ELSE 191

\* how many bytes from position i on form a valid prefix of one UTF-8 sequence
RECURSIVE Utf8Prefix(_, _, _)
Utf8Prefix(b, i, k) ==
    LET b0 == b[i]
    IN  IF k > Utf8Need(b0) \/ i + k - 1 > Len(b) THEN k - 1
        ELSE IF b[i + k - 1] \in Utf8ContLo(b0, k)..Utf8ContHi(b0, k)
             THEN Utf8Prefix(b, i, k + 1)
             ELSE k - 1

Utf8CodePoint(b, i, n) ==
    CASE n = 1 -> b[i]
      [] n = 2 -> (b[i] - 192) * 64 + (b[i + 1] - 128)
      [] n = 3 -> (b[i] - 224) * 4096 + (b[i + 1] - 128) * 64 + (b[i + 2] - 128)
      [] n = 4 -> (b[i] - 240) * 262144 + (b[i + 1] - 128) * 4096
                  + (b[i + 2] - 128) * 64 + (b[i + 3] - 128)

\* bytes.decode('utf-8') from position i on, cps the code points decoded so
\* far; replace: errors='replace'
RECURSIVE Utf8DecodeFrom(_, _, _, _)
Utf8DecodeFrom(b, i, replace, cps) ==
    IF i > Len(b) THEN [ok |-> TRUE, cps |-> cps]
    ELSE IF Utf8Need(b[i]) > 0 /\ Utf8Prefix(b, i, 2) = Utf8Need(b[i])
    THEN Utf8DecodeFrom(b, i + Utf8Need(b[i]), replace,
                        Append(cps, Utf8CodePoint(b, i, Utf8Need(b[i]))))
    ELSE IF replace
    THEN Utf8DecodeFrom(b,
                        i + (IF Utf8Need(b[i]) = 0 \/ Utf8Prefix(b, i, 2) = 0
                             THEN 1 ELSE Utf8Prefix(b, i, 2)),
                        replace, Append(cps, 65533))
    ELSE [ok |-> FALSE, cps |-> <<>>]

\* str.encode('utf-8') of one code point
Utf8EncodeCp(cp) ==
    IF cp < 128 THEN <<cp>>
    ELSE IF cp < 2048 THEN <<192 + (cp \div 64), 128 + (cp % 64)>>
    ELSE IF cp < 65536
         THEN <<224 + (cp \div 4096), 128 + ((cp \div 64) % 64), 128 + (cp % 64)>>
         ELSE <<240 + (cp \div 262144), 128 + ((cp \div 4096) % 64),
                128 + ((cp \div 64) % 64), 128 + (cp % 64)>>

\* str.encode('utf-8')
Utf8Encode(s) == Concat([i \in 1..Len(s) |-> Utf8EncodeCp(Ord(s[i]))])

\* the bytes cp1252 leaves undefined
Cp1252Undefined == {129, 141, 143, 144, 157}

\* cp1252's code points for the bytes 128..159
Cp1252High(b) ==
    CASE b = 128 -> 8364 [] b = 130 -> 8218 [] b = 131 -> 402  [] b = 132 -> 8222
      [] b = 133 -> 8230 [] b = 134 -> 8224 [] b = 135 -> 8225 [] b = 136 -> 710
      [] b = 137 -> 8240 [] b = 138 -> 352  [] b = 139 -> 8249 [] b = 140 -> 338
      [] b = 142 -> 381  [] b = 145 -> 8216 [] b = 146 -> 8217 [] b = 147 -> 8220
      [] b = 148 -> 8221 [] b = 149 -> 8226 [] b = 150 -> 8211 [] b = 151 -> 8212
      [] b = 152 -> 732  [] b = 153 -> 8482 [] b = 154 -> 353  [] b = 155 -> 8250
      [] b = 156 -> 339  [] b = 158 -> 382  [] b = 159 -> 376

\* bytes.decode(encoding): ok is FALSE where Python raises UnicodeDecodeError
Decode(encoding, b) ==
    CASE encoding = "utf-8" ->
           LET d == Utf8DecodeFrom(b, 1, FALSE, <<>>)
           IN  [ok |-> d.ok, text |-> IF d.ok THEN ChrAll(d.cps) ELSE <<>>]
      [] encoding \in {"latin-1", "iso-8859-1"} ->
           [ok |-> TRUE, text |-> ChrAll(b)]
      [] encoding = "cp1252" ->
           IF \E i \in DOMAIN b : b[i] \in Cp1252Undefined
           THEN [ok |-> FALSE, text |-> <<>>]
           ELSE [ok |-> TRUE,
                 text |-> [i \in 1..Len(b) |->
                             Chr[IF b[i] \in 128..159 THEN Cp1252High(b[i]) ELSE b[i]]]]

\* bytes.decode('utf-8', errors='replace')
DecodeReplace(b) == ChrAll(Utf8DecodeFrom(b, 1, TRUE, <<>>).cps)

(***************************************************************************)
(* Outcome of a call: ok with a text, or raised with the message of the    *)
(* exception (the interpolated file name left out).                        *)
(***************************************************************************)
Returned(text) == [ok |-> TRUE, text |-> text, err |-> ""]
Raised(msg)    == [ok |-> FALSE, text |-> <<>>, err |-> msg]

(***************************************************************************)
(* _extract_from_txt                                                       *)
(***************************************************************************)
\* the encodings tried in another order
encodings_Latin1First == <<"latin-1", "utf-8", "cp1252", "iso-8859-1">>

encodings == <<"utf-8", "latin-1", "cp1252", "iso-8859-1">>

\* the for loop over the encodings, from the k-th on, and what follows it
RECURSIVE ExtractFromTxtLoop(_, _)
ExtractFromTxtLoop(file_content, k) ==
    IF k > Len(encodings)
    THEN LET text == DecodeReplace(file_content)
         IN  IF Strip(text) = <<>>
             THEN Raised("Error reading TXT: No text content found in TXT file")
             ELSE Returned(Strip(text))
    ELSE LET d == Decode(encodings[k], file_content)
         IN  IF d.ok /\ Strip(d.text) # <<>>
             THEN Returned(Strip(d.text))
             ELSE ExtractFromTxtLoop(file_content, k + 1)

ExtractFromTxt(file_content) == ExtractFromTxtLoop(file_content, 1)

(***************************************************************************)
(* A document is its bytes (content) together with what each parser        *)
(* library makes of these bytes:                                           *)
(*   pdf  - PyPDF2.PdfReader: opens or raises; the pages, each raising or  *)
(*          yielding a text on extract_text()                              *)
(*   docx - docx.Document: opens or raises; paragraphs, tables (rows of    *)
(*          cells) and sections (header and footer, each with paragraphs)  *)
(*   alt  - zipfile + ElementTree on word/document.xml: opens or raises;   *)
(*          the elements of the tree, each with its text and tail          *)
(***************************************************************************)

(***************************************************************************)
(* _extract_from_pdf                                                       *)
(***************************************************************************)
\* the loop ended by the first page whose extraction raises
RECURSIVE PdfPagesText_RaiseEndsLoop(_)
PdfPagesText_RaiseEndsLoop(pages) ==
    IF pages = <<>> THEN <<>>
    ELSE LET page == Head(pages)
         IN  IF page.raises THEN <<>>
             ELSE (IF page.text # <<>> THEN page.text \o <<"\n">> ELSE <<>>)
                  \o PdfPagesText_RaiseEndsLoop(Tail(pages))

\* the for loop over the pages: the text accumulated
RECURSIVE PdfPagesText(_)
PdfPagesText(pages) ==
    IF pages = <<>> THEN <<>>
    ELSE LET page == Head(pages)
         IN  (IF ~page.raises /\ page.text # <<>>
              THEN page.text \o <<"\n">> ELSE <<>>)
             \o PdfPagesText(Tail(pages))

ExtractFromPdf(file) ==
    IF ~file.pdf.opens THEN Raised("Error reading PDF: {parser error}")
    ELSE IF Len(file.pdf.pages) = 0
    THEN Raised("Error reading PDF: PDF has no pages")
    ELSE LET text == PdfPagesText(file.pdf.pages)
         IN  IF Strip(text) = <<>>
             THEN Raised("Error reading PDF: No text content found in PDF")
             ELSE Returned(Strip(text))

(***************************************************************************)
(* _extract_from_docx_alternative                                          *)
(***************************************************************************)
RECURSIVE AltNodesText(_)
AltNodesText(nodes) ==
    IF nodes = <<>> THEN <<>>
    ELSE LET elem == Head(nodes)
         IN  (IF elem.text # <<>> /\ Strip(elem.text) # <<>>
              THEN Strip(elem.text) \o <<" ">> ELSE <<>>)
             \o (IF elem.tail # <<>> /\ Strip(elem.tail) # <<>>
                 THEN Strip(elem.tail) \o <<" ">> ELSE <<>>)
             \o AltNodesText(Tail(nodes))

\* returns a text; never raises (an exception inside yields "")
ExtractFromDocxAlternative(file) ==
    IF ~file.alt.opens THEN <<>>
    ELSE IF ~file.alt.has_document THEN <<>>
    ELSE Strip(AltNodesText(file.alt.nodes))

(***************************************************************************)
(* _extract_from_docx                                                      *)
(***************************************************************************)
RECURSIVE DocxParagraphsText(_)
DocxParagraphsText(paragraphs) ==
    IF paragraphs = <<>> THEN <<>>
    ELSE LET para_text == Strip(Head(paragraphs))
         IN  (IF para_text # <<>> THEN para_text \o <<"\n">> ELSE <<>>)
             \o DocxParagraphsText(Tail(paragraphs))

RECURSIVE DocxRowText(_)
DocxRowText(cells) ==
    IF cells = <<>> THEN <<>>
    ELSE LET cell_text == Strip(Head(cells))
         IN  (IF cell_text # <<>> THEN cell_text \o <<" ">> ELSE <<>>)
             \o DocxRowText(Tail(cells))

RECURSIVE DocxRowsText(_)
DocxRowsText(rows) ==
    IF rows = <<>> THEN <<>>
    ELSE LET row_text == DocxRowText(Head(rows))
         IN  (IF Strip(row_text) # <<>> THEN Strip(row_text) \o <<"\n">> ELSE <<>>)
             \o DocxRowsText(Tail(rows))

RECURSIVE DocxTablesText(_)
DocxTablesText(tables) ==
    IF tables = <<>> THEN <<>>
    ELSE DocxRowsText(Head(tables)) \o DocxTablesText(Tail(tables))

\* one header or footer: hf.paragraphs[0].text.strip() raises IndexError when
\* there is no paragraph
HeaderFooterRaises(hf) == hf.present /\ hf.paragraphs = <<>>
HeaderFooterText(hf) ==
    IF hf.present /\ hf.paragraphs # <<>> /\ Strip(hf.paragraphs[1]) # <<>>
    THEN Strip(hf.paragraphs[1]) \o <<"\n">> ELSE <<>>

\* the for loop over the sections inside its try: an exception ends the loop,
\* the text added before it stays
RECURSIVE DocxSectionsText(_)
DocxSectionsText(sections) ==
    IF sections = <<>> THEN <<>>
    ELSE LET section == Head(sections)
         IN  IF HeaderFooterRaises(section.header) THEN <<>>
             ELSE HeaderFooterText(section.header)
                  \o (IF HeaderFooterRaises(section.footer) THEN <<>>
                      ELSE HeaderFooterText(section.footer)
                           \o DocxSectionsText(Tail(sections)))

DocxPrimaryText(d) ==
    DocxParagraphsText(d.paragraphs) \o DocxTablesText(d.tables)
        \o DocxSectionsText(d.sections)

\* an except clause that raises without trying the alternative method
ExtractFromDocxHandler_NoAlternative(file, e) == Raised("Error reading DOCX: " \o e)

\* the except clause of _extract_from_docx, e the message of the exception
ExtractFromDocxHandler(file, e) ==
    LET text == ExtractFromDocxAlternative(file)
    IN  IF Strip(text) # <<>> THEN Returned(Strip(text))
        ELSE Raised("Error reading DOCX: " \o e)

ExtractFromDocx(file) ==
    IF ~file.docx.opens THEN ExtractFromDocxHandler(file, "{parser error}")
    ELSE LET text == DocxPrimaryText(file.docx)
         IN  IF Strip(text) = <<>>
             THEN LET alt_text == ExtractFromDocxAlternative(file)
                  IN  IF Strip(alt_text) = <<>>
                      THEN ExtractFromDocxHandler(file,
                               "No text content found in DOCX file using any method")
                      ELSE Returned(Strip(alt_text))
             ELSE Returned(Strip(text))

(***************************************************************************)
(* extract_text_from_file                                                  *)
(***************************************************************************)
\* s.split('.')[-1]
RECURSIVE LastDotPart(_)
LastDotPart(s) ==
    IF \E i \in DOMAIN s : s[i] = "."
    THEN LastDotPart(Tail(s)) ELSE s

FileExtension(name) == LastDotPart(Lower(name))

ExtPdf  == <<"p", "d", "f">>
ExtDoc  == <<"d", "o", "c">>
ExtDocx == <<"d", "o", "c", "x">>
ExtTxt  == <<"t", "x", "t">>

\* the outcome of the call and, beside it, the format extractors it invoked
WithInvoked(r, invoked) ==
    [ok |-> r.ok, text |-> r.text, err |-> r.err, invoked |-> invoked]

\* the except clause of extract_text_from_file: every exception is raised
\* again under the prefix "Error extracting text from {filename}: "
Reraised(r) ==
    IF r.ok THEN r
    ELSE Raised("Error extracting text from {filename}: " \o r.err)

\* lines 34-38: the check of the extracted text and the final strip
CheckExtracted(r) ==
    IF ~r.ok THEN r
    ELSE IF r.text = <<>> \/ Strip(r.text) = <<>>
    THEN Raised("No text content extracted from file")
    ELSE Returned(Strip(r.text))

\* the dispatch on the extension
Dispatch(file, name) ==
    LET file_extension == FileExtension(name)
    IN  IF file_extension = ExtPdf
        THEN WithInvoked(ExtractFromPdf(file), {"_extract_from_pdf"})
        ELSE IF file_extension \in {ExtDoc, ExtDocx}
        THEN WithInvoked(ExtractFromDocx(file), {"_extract_from_docx"})
        ELSE IF file_extension = ExtTxt
        THEN WithInvoked(ExtractFromTxt(file.content), {"_extract_from_txt"})
        ELSE WithInvoked(
                 Raised("Unsupported file format: {file_extension}. Supported formats: PDF, DOC, DOCX, TXT"),
                 {})

\* the check for an empty payload made after the dispatch instead of before it
ExtractTextFromFile_DispatchFirst(file, name) ==
    LET r == Dispatch(file, name)
    IN  IF ~r.ok THEN WithInvoked(Reraised(r), r.invoked)
        ELSE IF file.content = <<>>
        THEN WithInvoked(Reraised(Raised("File content is empty")), r.invoked)
        ELSE WithInvoked(Reraised(CheckExtracted(r)), r.invoked)

ExtractTextFromFile(file, name) ==
    IF file.content = <<>>
    THEN WithInvoked(Reraised(Raised("File content is empty")), {})
    ELSE LET r == Dispatch(file, name)
         IN  WithInvoked(Reraised(CheckExtracted(r)), r.invoked)

\* the routers' check of the file name:
\* filename.lower().endswith(('.pdf', '.doc', '.docx', '.txt'))
EndsWith(s, suffix) ==
    /\ Len(s) >= Len(suffix)
    /\ SubSeq(s, Len(s) - Len(suffix) + 1, Len(s)) = suffix

RouterAcceptsFileName(name) ==
    \E ext \in {ExtPdf, ExtDoc, ExtDocx, ExtTxt} :
        EndsWith(Lower(name), <<".">> \o ext)

(***************************************************************************)
(* The documents and file names the model draws from.                      *)
(***************************************************************************)
NoPdf  == [opens |-> FALSE, pages |-> <<>>]
NoDocx == [opens |-> FALSE, paragraphs |-> <<>>, tables |-> <<>>, sections |-> <<>>]
NoAlt  == [opens |-> FALSE, has_document |-> FALSE, nodes |-> <<>>]

\* space, A, NEL (0x85), NBSP (0xA0), 0xC2
ByteAlphabet == {32, 65, 133, 160, 194}

\* "Python developer, 5 years experience with Django and AWS."
ExampleResume ==
    <<"P","y","t","h","o","n"," ","d","e","v","e","l","o","p","e","r",","," ",
      "5"," ","y","e","a","r","s"," ","e","x","p","e","r","i","e","n","c","e"," ",
      "w","i","t","h"," ","D","j","a","n","g","o"," ","a","n","d"," ","A","W","S",".">>

\* plain payloads: no parser library opens them
\* "AWS, 5 years"
ExampleLine == <<"A","W","S",","," ","5"," ","y","e","a","r","s">>

TxtDocuments ==
    {[content |-> b, pdf |-> NoPdf, docx |-> NoDocx, alt |-> NoAlt] :
        b \in SeqsUpTo(ByteAlphabet, MaxPayloadLen) \cup {Utf8Encode(ExampleLine)}}

PageTexts == {<<>>, <<" ">>, <<" ", "a", " ">>, <<"b">>}
PdfPages == {[raises |-> TRUE, text |-> <<>>]}
                \cup {[raises |-> FALSE, text |-> t] : t \in PageTexts}
PdfViews == {NoPdf}
                \cup {[opens |-> TRUE, pages |-> ps] : ps \in SeqsUpTo(PdfPages, MaxPages)}

\* "%PDF"
PdfMagic == <<37, 80, 68, 70>>
PdfDocuments ==
    {[content |-> PdfMagic, pdf |-> v, docx |-> NoDocx, alt |-> NoAlt] : v \in PdfViews}

ParaTexts == {<<" ">>, <<" ", "p">>}
\* a row is a sequence of cell texts, a table a sequence of rows
BlankRow == << <<>>, <<" ">> >>
CellRow  == << <<"c", " ">>, <<"d">> >>
TableSamples == {<<>>, << <<BlankRow>> >>, << <<CellRow>> >>}
HeaderFooters(t) ==
    {[present |-> TRUE, paragraphs |-> ps] : ps \in {<<>>, << <<>> >>, << t >>}}
DocxSections ==
    {[header |-> h, footer |-> f] :
        h \in HeaderFooters(<<"h">>), f \in HeaderFooters(<<"f", " ">>)}
\* documents of two sections: both with header "h" and footer "f ", and the
\* first with a header that has no paragraph
SectionHF == [header |-> [present |-> TRUE, paragraphs |-> << <<"h">> >>],
              footer |-> [present |-> TRUE, paragraphs |-> << <<"f", " ">> >>]]
SectionNoHeaderParagraph ==
    [header |-> [present |-> TRUE, paragraphs |-> <<>>],
     footer |-> [present |-> TRUE, paragraphs |-> << <<"f", " ">> >>]]
TwoSectionSamples == {<<SectionHF, SectionHF>>, <<SectionNoHeaderParagraph, SectionHF>>}

DocxViews ==
    {NoDocx}
        \cup {[opens |-> TRUE, paragraphs |-> ps, tables |-> ts, sections |-> ss] :
                 ps \in SeqsUpTo(ParaTexts, MaxParas), ts \in TableSamples,
                 ss \in SeqsUpTo(DocxSections, MaxSections) \cup TwoSectionSamples}

AltNodes == {[text |-> <<"x", " ">>, tail |-> <<>>], [text |-> <<>>, tail |-> <<" ">>]}
AltViews ==
    {NoAlt, [opens |-> TRUE, has_document |-> FALSE, nodes |-> <<>>]}
        \cup {[opens |-> TRUE, has_document |-> TRUE, nodes |-> ns] :
                 ns \in SeqsUpTo(AltNodes, MaxNodes)}

\* "PK"
ZipMagic == <<80, 75>>
DocxDocuments ==
    {[content |-> ZipMagic, pdf |-> NoPdf, docx |-> v, alt |-> a] :
        v \in DocxViews, a \in AltViews}

Documents == TxtDocuments \cup PdfDocuments \cup DocxDocuments

FileNames ==
    { <<"r", ".", "p", "d", "f">>,
      <<"R", ".", "P", "D", "F">>,
      <<"r", ".", "d", "o", "c">>,
      <<"r", ".", "D", "o", "c", "x">>,
      <<"r", ".", "t", "x", "t">>,
      <<"r", ".", "x", "l", "s", "x">>,
      <<"r", ".", "t", "x", "t", ".", "b", "a", "k">>,
      <<"p", "d", "f">>,
      <<"t", "x", "t">>,
      <<"d", "o", "c", "x">> }

(***************************************************************************)
(* SpecExtract: one call of extract_text_from_file on a document and a     *)
(* file name.                                                              *)
(***************************************************************************)
\* no call of analyze_resume_match is made
MatchIdle ==
    /\ similarity_pipeline = "None"
    /\ resume_text = <<>>
    /\ job_description = <<>>
    /\ required_skills = <<>>
    /\ required_experience = 0
    /\ model_output = [raises |-> TRUE, cos |-> [num |-> 0, den |-> 1]]
    /\ calls = 0
    /\ similarity_score = [num |-> 0, den |-> 1]
    /\ result = [raised |-> FALSE]
    /\ prev_result = [raised |-> FALSE]

\* no signal extractor is called
SignalsIdle ==
    /\ signal_text = <<>>
    /\ experience_years = [returned |-> FALSE, value |-> 0]
    /\ skills_found = [returned |-> FALSE, value |-> {}]

\* no thread is started
ThreadsIdle ==
    /\ thread_pc = <<>>
    /\ thread_value = <<>>
    /\ models_constructed = 0

NoResponse == [returned |-> FALSE]

\* no bulk request is made
BulkIdle ==
    /\ batch = <<>>
    /\ position = 1
    /\ analyses = <<>>
    /\ counters = [matches |-> 0, partial_matches |-> 0, not_matches |-> 0]
    /\ db_analyses = <<>>
    /\ server_log = <<>>
    /\ response = NoResponse

NoJobRequest == [user |-> 0, requisition_id |-> 0]
NoJobResponse == [status_code |-> 0]

\* no job post is requested
JobPostIdle ==
    /\ requisitions = {}
    /\ job_posts = <<>>
    /\ job_request = NoJobRequest
    /\ job_response = NoJobResponse

NoExtraction == [ok |-> FALSE, text |-> <<>>, err |-> "", invoked |-> {}]

InitExtract ==
    /\ pc = "call"
    /\ doc \in Documents
    /\ filename \in FileNames
    /\ extraction = NoExtraction
    /\ MatchIdle
    /\ SignalsIdle
    /\ ThreadsIdle
    /\ BulkIdle
    /\ JobPostIdle

CallExtractTextFromFile ==
    /\ pc = "call"
    /\ extraction' = ExtractTextFromFile(doc, filename)
    /\ pc' = "done"
    /\ UNCHANGED <<doc, filename>>
    /\ UNCHANGED outside_extract_vars

NextExtract == CallExtractTextFromFile

SpecExtract == InitExtract /\ [][NextExtract]_vars

(***************************************************************************)
(* Regular expressions (module re), for the patterns the analyzer uses.    *)
(* A regular expression is a tree; Ends(re, t, i, ic) is the sequence of   *)
(* positions at which a match of re that starts at position i of t can     *)
(* end, in the order the backtracking matcher tries them (greedy first).   *)
(* ic: re.IGNORECASE.                                                      *)
(***************************************************************************)
Lit(s)       == [op |-> "lit", s |-> s]
Class(cs)    == [op |-> "class", chars |-> cs, negated |-> FALSE]
NotClass(cs) == [op |-> "class", chars |-> cs, negated |-> TRUE]
Opt(r)       == [op |-> "opt", arg |-> r]
Star(r)      == [op |-> "star", arg |-> r]
Plus(r)      == [op |-> "plus", arg |-> r]
Cat(rs)      == [op |-> "cat", args |-> rs]
Alt(rs)      == [op |-> "alt", args |-> rs]
WordB        == [op |-> "wordb"]

\* \w
IsWordChar(c) == c \in LowerSet \cup UpperSet \cup Ligatures \cup DigitChars \cup {"_"}

\* \b at position i: between t[i-1] and t[i]
AtWordBoundary(t, i) ==
    (i > 1 /\ IsWordChar(t[i - 1])) # (i <= Len(t) /\ IsWordChar(t[i]))

CharEq(a, b, ic) == IF ic THEN ToLowerChar(a) = ToLowerChar(b) ELSE a = b

LitAt(s, t, i, ic) ==
    /\ i + Len(s) - 1 <= Len(t)
    /\ \A k \in 1..Len(s) : CharEq(t[i + k - 1], s[k], ic)

ClassAt(re, t, i) ==
    /\ i <= Len(t)
    /\ (t[i] \in re.chars) # re.negated

\* how many characters from position i on are in the class
RECURSIVE ClassRun(_, _, _)
ClassRun(re, t, i) == IF ClassAt(re, t, i) THEN 1 + ClassRun(re, t, i + 1) ELSE 0

\* <<hi, hi - 1, ..., lo>>
Downto(hi, lo) == [k \in 1..(hi - lo + 1) |-> hi - k + 1]

RECURSIVE Ends(_, _, _, _)
RECURSIVE EndsCat(_, _, _, _, _)
RECURSIVE EndsAlt(_, _, _, _, _)
RECURSIVE EndsFrom(_, _, _, _, _)

Ends(re, t, i, ic) ==
    CASE re.op = "lit"   -> IF LitAt(re.s, t, i, ic) THEN <<i + Len(re.s)>> ELSE <<>>
      [] re.op = "class" -> IF ClassAt(re, t, i) THEN <<i + 1>> ELSE <<>>
      [] re.op = "wordb" -> IF AtWordBoundary(t, i) THEN <<i>> ELSE <<>>
      [] re.op = "opt"   -> Ends(re.arg, t, i, ic) \o <<i>>
      [] re.op = "star"  -> Downto(i + ClassRun(re.arg, t, i), i)
      [] re.op = "plus"  -> Downto(i + ClassRun(re.arg, t, i), i + 1)
      [] re.op = "cat"   -> EndsCat(re.args, 1, t, <<i>>, ic)
      [] re.op = "alt"   -> EndsAlt(re.args, 1, t, i, ic)

\* the k-th and later parts of a concatenation, started at each position of starts
EndsCat(rs, k, t, starts, ic) ==
    IF k > Len(rs) \/ starts = <<>> THEN starts
    ELSE EndsCat(rs, k + 1, t, EndsFrom(rs[k], t, starts, 1, ic), ic)

\* the k-th and later alternatives
EndsAlt(rs, k, t, i, ic) ==
    IF k > Len(rs) THEN <<>>
    ELSE Ends(rs[k], t, i, ic) \o EndsAlt(rs, k + 1, t, i, ic)

\* re started at the j-th and later positions of starts
EndsFrom(re, t, starts, j, ic) ==
    IF j > Len(starts) THEN <<>>
    ELSE Ends(re, t, starts[j], ic) \o EndsFrom(re, t, starts, j + 1, ic)

(***************************************************************************)
(* A pattern is pre (group) post: the text before the group, the one       *)
(* capturing group (the whole match for a pattern without a group), and    *)
(* the text after it.                                                      *)
(***************************************************************************)
Pattern(pre, grp, post) == [pre |-> pre, grp |-> grp, post |-> post]

\* the matches of the pattern that start at i, as <<group start, group end,
\* match end>>, in the matcher's order; the p-th and later group starts, the
\* g-th and later group ends
RECURSIVE MatchesAt(_, _, _, _, _, _, _)
MatchesAt(pat, t, ic, starts, p, ends, g) ==
    IF p > Len(starts) THEN <<>>
    ELSE IF g > Len(ends)
    THEN IF p + 1 > Len(starts) THEN <<>>
         ELSE MatchesAt(pat, t, ic, starts, p + 1,
                        Ends(pat.grp, t, starts[p + 1], ic), 1)
    ELSE LET tails == Ends(pat.post, t, ends[g], ic)
         IN  IF tails # <<>>
             THEN << <<starts[p], ends[g], tails[1]>> >>
             ELSE MatchesAt(pat, t, ic, starts, p, ends, g + 1)

\* the match the matcher finds at position i: <<>> or <<triple>>
MatchAt(pat, t, i, ic) ==
    LET starts == Ends(pat.pre, t, i, ic)
    IN  IF starts = <<>> THEN <<>>
        ELSE MatchesAt(pat, t, ic, starts, 1, Ends(pat.grp, t, starts[1], ic), 1)

\* re.findall(pattern, t): the captured texts of the leftmost non-overlapping
\* matches, scanning from position i on; found: those found so far
RECURSIVE FindAllFrom(_, _, _, _, _)
RECURSIVE FindAllStep(_, _, _, _, _, _)
FindAllFrom(pat, t, i, ic, found) ==
    IF i > Len(t) THEN found
    ELSE FindAllStep(pat, t, i, ic, found, MatchAt(pat, t, i, ic))

\* m: the match found at position i, if any
FindAllStep(pat, t, i, ic, found, m) ==
    IF m = <<>> THEN FindAllFrom(pat, t, i + 1, ic, found)
    ELSE FindAllFrom(pat, t, IF m[1][3] > i THEN m[1][3] ELSE i + 1, ic,
                     Append(found, SubSeq(t, m[1][1], m[1][2] - 1)))

FindAll(pat, t, ic) == FindAllFrom(pat, t, 1, ic, <<>>)

(***************************************************************************)
(* extract_skills_from_text                                                *)
(***************************************************************************)
\* skill_patterns: each line is a word-boundary, one of the terms, a word-boundary

SkillAlternatives1 ==
    Alt(<<Lit(<<"J", "a", "v", "a", "S", "c", "r", "i", "p", "t">>),
         Lit(<<"J", "S">>),
         Lit(<<"R", "e", "a", "c", "t">>),
         Lit(<<"A", "n", "g", "u", "l", "a", "r">>),
         Lit(<<"V", "u", "e">>),
         Cat(<<Lit(<<"N", "o", "d", "e">>), Opt(Lit(<<".">>)), Lit(<<"j", "s">>)>>),
         Lit(<<"E", "x", "p", "r", "e", "s", "s">>),
         Lit(<<"j", "Q", "u", "e", "r", "y">>)>>)

SkillAlternatives2 ==
    Alt(<<Lit(<<"P", "y", "t", "h", "o", "n">>),
         Lit(<<"J", "a", "v", "a">>),
         Lit(<<"C", "+", "+">>),
         Lit(<<"C", "#">>),
         Lit(<<"P", "H", "P">>),
         Lit(<<"R", "u", "b", "y">>),
         Lit(<<"G", "o">>),
         Lit(<<"R", "u", "s", "t">>),
         Lit(<<"S", "w", "i", "f", "t">>),
         Lit(<<"K", "o", "t", "l", "i", "n">>)>>)

SkillAlternatives3 ==
    Alt(<<Lit(<<"H", "T", "M", "L">>),
         Lit(<<"C", "S", "S">>),
         Lit(<<"S", "A", "S", "S">>),
         Lit(<<"S", "C", "S", "S">>),
         Lit(<<"B", "o", "o", "t", "s", "t", "r", "a", "p">>),
         Lit(<<"T", "a", "i", "l", "w", "i", "n", "d">>)>>)

SkillAlternatives4 ==
    Alt(<<Lit(<<"S", "Q", "L">>),
         Lit(<<"M", "y", "S", "Q", "L">>),
         Lit(<<"P", "o", "s", "t", "g", "r", "e", "S", "Q", "L">>),
         Lit(<<"M", "o", "n", "g", "o", "D", "B">>),
         Lit(<<"R", "e", "d", "i", "s">>),
         Lit(<<"E", "l", "a", "s", "t", "i", "c", "s", "e", "a", "r", "c", "h">>)>>)

SkillAlternatives5 ==
    Alt(<<Lit(<<"A", "W", "S">>),
         Lit(<<"A", "z", "u", "r", "e">>),
         Lit(<<"G", "C", "P">>),
         Lit(<<"D", "o", "c", "k", "e", "r">>),
         Lit(<<"K", "u", "b", "e", "r", "n", "e", "t", "e", "s">>),
         Lit(<<"J", "e", "n", "k", "i", "n", "s">>),
         Lit(<<"G", "i", "t">>),
         Lit(<<"G", "i", "t", "H", "u", "b">>),
         Lit(<<"G", "i", "t", "L", "a", "b">>)>>)

SkillAlternatives6 ==
    Alt(<<Lit(<<"M", "E", "R", "N">>),
         Lit(<<"M", "E", "A", "N">>),
         Lit(<<"L", "A", "M", "P">>),
         Lit(<<"D", "j", "a", "n", "g", "o">>),
         Lit(<<"F", "l", "a", "s", "k">>),
         Lit(<<"S", "p", "r", "i", "n", "g">>),
         Lit(<<"L", "a", "r", "a", "v", "e", "l">>),
         Lit(<<"R", "a", "i", "l", "s">>)>>)

SkillAlternatives7 ==
    Alt(<<Lit(<<"M", "a", "c", "h", "i", "n", "e", " ", "L", "e", "a", "r", "n", "i", "n", "g">>),
         Lit(<<"M", "L">>),
         Lit(<<"A", "I">>),
         Lit(<<"D", "a", "t", "a", " ", "S", "c", "i", "e", "n", "c", "e">>),
         Lit(<<"A", "n", "a", "l", "y", "t", "i", "c", "s">>),
         Lit(<<"B", "i", "g", " ", "D", "a", "t", "a">>)>>)

SkillAlternatives8 ==
    Alt(<<Lit(<<"A", "g", "i", "l", "e">>),
         Lit(<<"S", "c", "r", "u", "m">>),
         Lit(<<"D", "e", "v", "O", "p", "s">>),
         Lit(<<"C", "I", "/", "C", "D">>),
         Lit(<<"M", "i", "c", "r", "o", "s", "e", "r", "v", "i", "c", "e", "s">>),
         Lit(<<"R", "E", "S", "T">>),
         Lit(<<"A", "P", "I">>)>>)

SkillAlternatives9 ==
    Alt(<<Lit(<<"L", "i", "n", "u", "x">>),
         Lit(<<"U", "n", "i", "x">>),
         Lit(<<"W", "i", "n", "d", "o", "w", "s">>),
         Lit(<<"m", "a", "c", "O", "S">>),
         Lit(<<"i", "O", "S">>),
         Lit(<<"A", "n", "d", "r", "o", "i", "d">>)>>)

SkillAlternatives10 ==
    Alt(<<Lit(<<"P", "h", "o", "t", "o", "s", "h", "o", "p">>),
         Lit(<<"I", "l", "l", "u", "s", "t", "r", "a", "t", "o", "r">>),
         Lit(<<"F", "i", "g", "m", "a">>),
         Lit(<<"S", "k", "e", "t", "c", "h">>),
         Lit(<<"A", "d", "o", "b", "e">>),
         Lit(<<"D", "e", "s", "i", "g", "n">>)>>)

skill_patterns ==
    <<Pattern(WordB, SkillAlternatives1, WordB),
      Pattern(WordB, SkillAlternatives2, WordB),
      Pattern(WordB, SkillAlternatives3, WordB),
      Pattern(WordB, SkillAlternatives4, WordB),
      Pattern(WordB, SkillAlternatives5, WordB),
      Pattern(WordB, SkillAlternatives6, WordB),
      Pattern(WordB, SkillAlternatives7, WordB),
      Pattern(WordB, SkillAlternatives8, WordB),
      Pattern(WordB, SkillAlternatives9, WordB),
      Pattern(WordB, SkillAlternatives10, WordB)>>

\* the heading pattern of line 214: a heading token, an optional colon or
\* dash, any whitespace, then (the group) everything up to a full stop or a
\* line break
HeadingTokens ==
    Alt(<<Cat(<<Lit(<<"s", "k", "i", "l", "l">>), Opt(Lit(<<"s">>))>>),
          Cat(<<Lit(<<"t", "e", "c", "h", "n", "o", "l", "o", "g", "i", "e">>),
                Opt(Lit(<<"s">>))>>),
          Cat(<<Lit(<<"t", "o", "o", "l">>), Opt(Lit(<<"s">>))>>),
          Cat(<<Lit(<<"l", "a", "n", "g", "u", "a", "g", "e">>), Opt(Lit(<<"s">>))>>)>>)

HeadingPattern ==
    Pattern(Cat(<<HeadingTokens, Opt(Class({":", "-"})), Star(Class(SpaceChars))>>),
            Plus(NotClass({".", "\n"})),
            Cat(<<>>))

\* the separators of line 217: the character class , ; | U+00E2 U+20AC U+00A2
\* - and the line break
SkillSeparators == {",", ";", "|", "U+00E2", "U+20AC", "U+00A2", "-", "\n"}

\* re.split on a class of single characters, from position i on; piece: the
\* piece being read, pieces: the pieces completed
RECURSIVE SplitFrom(_, _, _, _, _)
SplitFrom(seps, s, i, piece, pieces) ==
    IF i > Len(s) THEN Append(pieces, piece)
    ELSE IF s[i] \in seps
    THEN SplitFrom(seps, s, i + 1, <<>>, Append(pieces, piece))
    ELSE SplitFrom(seps, s, i + 1, Append(piece, s[i]), pieces)

Split(seps, s) == SplitFrom(seps, s, 1, <<>>, <<>>)

IsCased(c) == c \in LowerSet \cup UpperSet \cup Ligatures

\* str.title(): a character that follows no cased character takes its title
\* form, every other one its lower-case form
Title(s) ==
    Concat([i \in 1..Len(s) |->
               IF i = 1 \/ ~IsCased(s[i - 1])
               THEN IF s[i] \in Ligatures THEN <<"F", "i">> ELSE <<ToUpperChar(s[i])>>
               ELSE <<ToLowerChar(s[i])>>])

\* line 220: len(skill) > 2 and len(skill) < 50
SkillLenAbove == 2
SkillLenBelow == 50

\* lines 209-211: the catalogue terms found in the text
CatalogueSkills(text) ==
    UNION {{Strip(m) : m \in Range(FindAll(skill_patterns[k], text, TRUE))} :
              k \in DOMAIN skill_patterns}

\* lines 214-221: the candidates that follow a heading token
HeadingSkills(text) ==
    LET text_lower == Lower(text)
        skill_sections == FindAll(HeadingPattern, text_lower, FALSE)
        section_skills == UNION {Range(Split(SkillSeparators, skill_sections[j])) :
                                    j \in DOMAIN skill_sections}
    IN  {Title(Strip(skill)) :
            skill \in {x \in section_skills :
                          Len(Strip(x)) > SkillLenAbove /\ Len(Strip(x)) < SkillLenBelow}}

\* the set of skills; the list the code returns holds them in no fixed order
ExtractSkillsFromText(text) == CatalogueSkills(text) \cup HeadingSkills(text)

(***************************************************************************)
(* extract_experience_years                                                *)
(***************************************************************************)
Digits == Plus(Class(DigitChars))
Spaces == Star(Class(SpaceChars))
Years  == Cat(<<Lit(<<"y", "e", "a", "r">>), Opt(Lit(<<"s">>))>>)
OptPlus == Opt(Lit(<<"+">>))
Experience ==
    Alt(<<Lit(<<"e", "x", "p", "e", "r", "i", "e", "n", "c", "e">>),
          Lit(<<"e", "x", "p">>)>>)
OptOf == Opt(Cat(<<Lit(<<"o", "f">>), Spaces>>))
NoPrefix == Cat(<<>>)

\* experience_patterns, lines 228-236
experience_patterns ==
    <<Pattern(NoPrefix, Digits, Cat(<<OptPlus, Spaces, Years, Spaces, OptOf, Experience>>)),
      Pattern(Cat(<<Experience, Opt(Class({":", "-"})), Spaces>>), Digits,
              Cat(<<OptPlus, Spaces, Years>>)),
      Pattern(NoPrefix, Digits,
              Cat(<<OptPlus, Spaces, Years, Spaces,
                    Alt(<<Lit(<<"i", "n">>), Lit(<<"o", "f">>)>>)>>)),
      Pattern(NoPrefix, Digits, Cat(<<Spaces, Years, Spaces, OptOf, Experience>>)),
      Pattern(NoPrefix, Digits,
              Cat(<<OptPlus, Spaces, Years, Spaces, OptOf,
                    Alt(<<Lit(<<"p", "r", "o", "f", "e", "s", "s", "i", "o", "n", "a", "l">>),
                          Lit(<<"w", "o", "r", "k">>)>>)>>)),
      Pattern(NoPrefix, Digits,
              Cat(<<OptPlus, Spaces, Years, Spaces,
                    Opt(Cat(<<Lit(<<"i", "n">>), Spaces>>)),
                    Alt(<<Lit(<<"s", "o", "f", "t", "w", "a", "r", "e">>),
                          Lit(<<"d", "e", "v", "e", "l", "o", "p", "m", "e", "n", "t">>),
                          Lit(<<"p", "r", "o", "g", "r", "a", "m", "m", "i", "n", "g">>)>>)>>)),
      Pattern(NoPrefix, Digits,
              Cat(<<OptPlus, Spaces, Years, Spaces,
                    Opt(Cat(<<Lit(<<"a", "s">>), Spaces>>)),
                    Alt(<<Lit(<<"d", "e", "v", "e", "l", "o", "p", "e", "r">>),
                          Lit(<<"e", "n", "g", "i", "n", "e", "e", "r">>),
                          Lit(<<"p", "r", "o", "g", "r", "a", "m", "m", "e", "r">>)>>)>>))>>

\* simple_patterns, lines 255-258
simple_patterns ==
    <<Pattern(NoPrefix, Digits, Cat(<<OptPlus, Spaces, Years>>)),
      Pattern(NoPrefix, Digits, Cat(<<Spaces, Years>>))>>

DigitValue(c) == CHOOSE v \in 0..9 : AsciiPrintable[17 + v] = c

\* int() of a string of digits
RECURSIVE ParseIntFrom(_, _, _)
ParseIntFrom(s, i, n) ==
    IF i > Len(s) THEN n ELSE ParseIntFrom(s, i + 1, 10 * n + DigitValue(s[i]))

ParseInt(s) == ParseIntFrom(s, 1, 0)

Max(a, b) == IF a >= b THEN a ELSE b

\* line 266: 1 <= years <= 50
ReasonableYearsMin == 1
ReasonableYearsMax == 50

\* the loop over the matches of one pattern, with no range test
RECURSIVE MaxYearsOfMatches_Unlimited(_, _, _, _)
MaxYearsOfMatches_Unlimited(matches, j, limited, max_years) ==
    IF j > Len(matches) THEN max_years
    ELSE MaxYearsOfMatches_Unlimited(matches, j + 1, limited,
                                     Max(max_years, ParseInt(matches[j])))

\* the loop over the matches of one pattern; limited: only 1..50 count
RECURSIVE MaxYearsOfMatches(_, _, _, _)
MaxYearsOfMatches(matches, j, limited, max_years) ==
    IF j > Len(matches) THEN max_years
    ELSE MaxYearsOfMatches(matches, j + 1, limited,
             IF limited /\ ~(ReasonableYearsMin <= ParseInt(matches[j])
                             /\ ParseInt(matches[j]) <= ReasonableYearsMax)
             THEN max_years
             ELSE Max(max_years, ParseInt(matches[j])))

\* the loop over a list of patterns
RECURSIVE MaxYearsOfPatterns(_, _, _, _, _)
MaxYearsOfPatterns(patterns, k, text_lower, limited, max_years) ==
    IF k > Len(patterns) THEN max_years
    ELSE MaxYearsOfPatterns(patterns, k + 1, text_lower, limited,
             MaxYearsOfMatches(FindAll(patterns[k], text_lower, FALSE), 1,
                               limited, max_years))

ExtractExperienceYears(text) ==
    MaxYearsOfPatterns(simple_patterns, 1, Lower(text), TRUE,
        MaxYearsOfPatterns(experience_patterns, 1, Lower(text), FALSE, 0))

(***************************************************************************)
(* Numbers.  A Python float is modelled by the exact fraction num / den,   *)
(* den > 0, kept in lowest terms; round(x, 2) is the nearest number of     *)
(* hundredths, ties to even, and is carried as that number of hundredths.  *)
(***************************************************************************)
Abs(n) == IF n < 0 THEN -n ELSE n

RECURSIVE Gcd(_, _)
Gcd(a, b) == IF b = 0 THEN a ELSE Gcd(b, a % b)

Frac(n, d) ==
    LET g == IF n = 0 THEN d ELSE Gcd(Abs(n), d)
    IN  [num |-> n \div g, den |-> d \div g]

FracAdd(x, y) == Frac(x.num * y.den + y.num * x.den, x.den * y.den)
FracMul(x, y) == Frac(x.num * y.num, x.den * y.den)
FracOfInt(n)  == [num |-> n, den |-> 1]
\* x >= n
FracGeq(x, n) == x.num >= n * x.den

\* the integer nearest to n / d, ties to the even one
RoundHalfEven(n, d) ==
    LET q == (2 * n + d) \div (2 * d)
    IN  IF (2 * n + d) % (2 * d) = 0 /\ q % 2 = 1 THEN q - 1 ELSE q

\* round(x, 2), in hundredths
Round2(x) == RoundHalfEven(100 * x.num, x.den)

(***************************************************************************)
(* _simple_text_similarity                                                 *)
(***************************************************************************)
\* set(text.split()), the case kept
Words_CaseSensitive(text) == {w \in Range(Split(SpaceChars, text)) : w # <<>>}

\* set(text.lower().split())
Words(text) == {w \in Range(Split(SpaceChars, Lower(text))) : w # <<>>}

SimpleTextSimilarity(text1, text2) ==
    LET words1 == Words(text1)
        words2 == Words(text2)
    IN  IF words1 = {} \/ words2 = {} THEN FracOfInt(0)
        ELSE Frac(Cardinality(words1 \cap words2), Cardinality(words1 \cup words2))

(***************************************************************************)
(* calculate_similarity.  pipeline: self.similarity_pipeline, "None" or    *)
(* "loaded".  load_ok: whether constructing the pipeline succeeds on this  *)
(* call.  output: what the loaded model and the cosine computation yield   *)
(* for this pair of texts, an exception (raises) or the cosine (cos).      *)
(* The outcome carries the value of self.similarity_pipeline afterwards.   *)
(***************************************************************************)
\* a body of the try that drops the handle when the embedding raises
TrySimilarity_ResetOnError(pipeline, load_ok, output) ==
    IF pipeline = "None" /\ ~load_ok
    THEN [raised |-> TRUE, value |-> FracOfInt(0), similarity_pipeline |-> "None"]
    ELSE IF output.raises
    THEN [raised |-> TRUE, value |-> FracOfInt(0), similarity_pipeline |-> "None"]
    ELSE [raised |-> FALSE, value |-> output.cos, similarity_pipeline |-> "loaded"]

\* the body of the try, lines 278-299
TrySimilarity(pipeline, load_ok, output) ==
    IF pipeline = "None" /\ ~load_ok
    THEN [raised |-> TRUE, value |-> FracOfInt(0), similarity_pipeline |-> "None"]
    ELSE IF output.raises
    THEN [raised |-> TRUE, value |-> FracOfInt(0), similarity_pipeline |-> "loaded"]
    ELSE [raised |-> FALSE, value |-> output.cos, similarity_pipeline |-> "loaded"]

\* calculate_similarity without its except clause
CalculateSimilarity_NoFallback(pipeline, load_ok, output, text1, text2) ==
    TrySimilarity(pipeline, load_ok, output)

CalculateSimilarity(pipeline, load_ok, output, text1, text2) ==
    LET body == TrySimilarity(pipeline, load_ok, output)
    IN  IF body.raised
        THEN [raised |-> FALSE, value |-> SimpleTextSimilarity(text1, text2),
              similarity_pipeline |-> body.similarity_pipeline]
        ELSE body

(***************************************************************************)
(* _generate_gaps_analysis                                                 *)
(***************************************************************************)
\* a text as a string
RECURSIVE StrOfFrom(_, _, _)
StrOfFrom(s, i, acc) == IF i > Len(s) THEN acc ELSE StrOfFrom(s, i + 1, acc \o s[i])
StrOf(s) == StrOfFrom(s, 1, "")

\* sep.join(items)
RECURSIVE JoinFrom(_, _, _, _)
JoinFrom(sep, items, i, acc) ==
    IF i > Len(items) THEN acc
    ELSE JoinFrom(sep, items, i + 1, (IF i = 1 THEN acc ELSE acc \o sep) \o items[i])
Join(sep, items) == JoinFrom(sep, items, 1, "")

\* the experience finding put before the skills finding
GenerateGapsAnalysis_ExperienceFirst(matched_skills, missing_skills, experience_match, required_exp, resume_exp) ==
    LET gaps ==
            (IF ~experience_match
             THEN <<"Experience gap: Resume shows " \o ToString(resume_exp)
                      \o " years, but " \o ToString(required_exp) \o "+ years required">>
             ELSE <<>>)
            \o (IF missing_skills # <<>>
                THEN <<"Missing required skills: "
                         \o Join(", ", [i \in DOMAIN missing_skills |-> StrOf(missing_skills[i])])>>
                ELSE <<>>)
    IN  IF gaps = <<>>
        THEN "No significant gaps identified. Candidate meets all requirements."
        ELSE "Gaps identified: " \o Join("; ", gaps)

GenerateGapsAnalysis(matched_skills, missing_skills, experience_match, required_exp, resume_exp) ==
    LET gaps ==
            (IF missing_skills # <<>>
             THEN <<"Missing required skills: "
                      \o Join(", ", [i \in DOMAIN missing_skills |-> StrOf(missing_skills[i])])>>
             ELSE <<>>)
            \o (IF ~experience_match
                THEN <<"Experience gap: Resume shows " \o ToString(resume_exp)
                         \o " years, but " \o ToString(required_exp) \o "+ years required">>
                ELSE <<>>)
    IN  IF gaps = <<>>
        THEN "No significant gaps identified. Candidate meets all requirements."
        ELSE "Gaps identified: " \o Join("; ", gaps)

(***************************************************************************)
(* analyze_resume_match                                                    *)
(***************************************************************************)
\* needle in hay
Contains(hay, needle) ==
    \E i \in 1..(Len(hay) - Len(needle) + 1) :
        SubSeq(hay, i, i + Len(needle) - 1) = needle

\* found only when the required skill lies within a skill of the resume
SkillFound_OneDirection(skill, resume_skills_lower) ==
    \E resume_skill \in resume_skills_lower : Contains(resume_skill, skill)

\* lines 336-340: the required skill is found among the resume's skills
SkillFound(skill, resume_skills_lower) ==
    \E resume_skill \in resume_skills_lower :
        Contains(resume_skill, skill) \/ Contains(skill, resume_skill)

\* no skills required counted as full coverage
SkillMatchPercentage_EmptyIsFull(matched_skills, skills) ==
    IF skills # <<>>
    THEN FracMul(Frac(Len(matched_skills), Len(skills)), FracOfInt(100))
    ELSE FracOfInt(100)

\* line 345
SkillMatchPercentage(matched_skills, skills) ==
    IF skills # <<>>
    THEN FracMul(Frac(Len(matched_skills), Len(skills)), FracOfInt(100))
    ELSE FracOfInt(0)

\* the weights of skills and experience exchanged
OverallMatch_WeightsExchanged(skill_match_percentage, experience_match, similarity) ==
    FracAdd(FracAdd(FracMul(skill_match_percentage, Frac(3, 10)),
                    FracMul(FracOfInt(IF experience_match THEN 100 ELSE 0), Frac(4, 10))),
            FracMul(FracMul(similarity, FracOfInt(100)), Frac(3, 10)))

\* lines 355-359: 40% skills, 30% experience, 30% similarity
OverallMatch(skill_match_percentage, experience_match, similarity) ==
    FracAdd(FracAdd(FracMul(skill_match_percentage, Frac(4, 10)),
                    FracMul(FracOfInt(IF experience_match THEN 100 ELSE 0), Frac(3, 10))),
            FracMul(FracMul(similarity, FracOfInt(100)), Frac(3, 10)))

\* lines 362-370
MatchStatus(overall_match) ==
    IF FracGeq(overall_match, 80) THEN "Match"
    ELSE IF FracGeq(overall_match, 60) THEN "Partial Match"
    ELSE "Not a Match"

\* Medium from 70 on
SuitabilityRating_MediumFrom70(overall_match) ==
    IF FracGeq(overall_match, 80) THEN "High"
    ELSE IF FracGeq(overall_match, 70) THEN "Medium"
    ELSE "Low"

SuitabilityRating(overall_match) ==
    IF FracGeq(overall_match, 80) THEN "High"
    ELSE IF FracGeq(overall_match, 60) THEN "Medium"
    ELSE "Low"

\* every required skill listed as missing, the matched ones too
MatchResultOf_AllMissing(resume_skills, resume_experience, skills, experience, similarity) ==
    LET required_skills_lower == [i \in DOMAIN skills |-> Lower(skills[i])]
        resume_skills_lower == {Lower(skill) : skill \in resume_skills}
        Found(skill) == SkillFound(skill, resume_skills_lower)
        Missing(skill) == ~SkillFound(skill, resume_skills_lower)
        matched_skills == SelectSeq(required_skills_lower, Found)
        missing_skills == required_skills_lower
        skill_match_percentage == SkillMatchPercentage(matched_skills, skills)
        experience_match == resume_experience >= experience
        overall_match == OverallMatch(skill_match_percentage, experience_match, similarity)
    IN  [raised |-> FALSE,
         match_percentage |-> Round2(overall_match),
         confidence_score |-> Round2(FracMul(similarity, FracOfInt(100))),
         is_match |-> MatchStatus(overall_match),
         suitability_rating |-> SuitabilityRating(overall_match),
         skills_match |-> [matched_skills |-> matched_skills,
                           missing_skills |-> missing_skills,
                           match_percentage |-> Round2(skill_match_percentage)],
         experience_match |-> experience_match,
         resume_experience |-> resume_experience,
         required_experience |-> experience,
         gaps_analysis |-> GenerateGapsAnalysis(matched_skills, missing_skills,
                               experience_match, experience, resume_experience),
         resume_skills |-> resume_skills]

\* lines 322-391, given the skills and years extracted from the resume and
\* the value calculate_similarity returned; the percentages are in hundredths
MatchResultOf(resume_skills, resume_experience, skills, experience, similarity) ==
    LET required_skills_lower == [i \in DOMAIN skills |-> Lower(skills[i])]
        resume_skills_lower == {Lower(skill) : skill \in resume_skills}
        Found(skill) == SkillFound(skill, resume_skills_lower)
        Missing(skill) == ~SkillFound(skill, resume_skills_lower)
        matched_skills == SelectSeq(required_skills_lower, Found)
        missing_skills == SelectSeq(required_skills_lower, Missing)
        skill_match_percentage == SkillMatchPercentage(matched_skills, skills)
        experience_match == resume_experience >= experience
        overall_match == OverallMatch(skill_match_percentage, experience_match, similarity)
    IN  [raised |-> FALSE,
         match_percentage |-> Round2(overall_match),
         confidence_score |-> Round2(FracMul(similarity, FracOfInt(100))),
         is_match |-> MatchStatus(overall_match),
         suitability_rating |-> SuitabilityRating(overall_match),
         skills_match |-> [matched_skills |-> matched_skills,
                           missing_skills |-> missing_skills,
                           match_percentage |-> Round2(skill_match_percentage)],
         experience_match |-> experience_match,
         resume_experience |-> resume_experience,
         required_experience |-> experience,
         gaps_analysis |-> GenerateGapsAnalysis(matched_skills, missing_skills,
                               experience_match, experience, resume_experience),
         resume_skills |-> resume_skills]

(***************************************************************************)
(* Arguments of analyze_resume_match and outputs of the embedding model.   *)
(***************************************************************************)
\* "JavaScript"
TextJavaScript ==
    <<"J","a","v","a","S","c","r","i","p","t">>

\* "x"
TextX == <<"x">>

\* "Skills: go, rust. 10 years in software"
TextSkillsHeading ==
    <<"S","k","i","l","l","s",":"," ","g","o",","," ","r","u","s","t","."," ",
      "1","0"," ","y","e","a","r","s"," ","i","n"," ","s","o","f","t","w","a",
      "r","e">>

\* "12 years of experience"
TextYearsOnly ==
    <<"1","2"," ","y","e","a","r","s"," ","o","f"," ","e","x","p","e","r","i",
      "e","n","c","e">>

ResumeTexts == {ExampleResume, TextJavaScript, TextX, TextSkillsHeading, TextYearsOnly}

\* "Python developer with Django"
TextJobPython ==
    <<"P","y","t","h","o","n"," ","d","e","v","e","l","o","p","e","r"," ","w",
      "i","t","h"," ","D","j","a","n","g","o">>

\* "PYTHON<tab>django  X"
TextJobUpper ==
    <<"P","Y","T","H","O","N","\t","d","j","a","n","g","o"," "," ","X">>

\* a space and a tab
TextBlank == <<" ", "\t">>

JobDescriptions == {TextJobPython, TextX, <<>>, TextJobUpper, TextBlank}

RequiredSkillLists ==
    { <<>>,
      << <<"P","y","t","h","o","n">>, <<"D","j","a","n","g","o">> >>,
      << <<"r","u","s","t">>, <<"s","q","l">>, <<"g","o">> >>,
      << <<"J","a","v","a">> >>,
      << <<"P","y","t","h","o","n","3">>, <<"C","o","b","o","l">> >>,
      << <<"G","o">>, <<"C","o","b","o","l">>, <<"g","o">> >> }

RequiredExperiences == {0, 3, 11}

\* the invocation raises, or the cosine of the two mean embeddings:
\* -0.5, 0, 0.3332, 1
ModelOutputs ==
    {[raises |-> TRUE, cos |-> FracOfInt(0)]}
    \cup {[raises |-> FALSE, cos |-> c] :
             c \in {Frac(-1, 2), FracOfInt(0), Frac(3332, 10000), FracOfInt(1)}}

\* lines 323-324 for each resume text of the model
ResumeSignals ==
    [t \in ResumeTexts |-> [skills |-> ExtractSkillsFromText(t),
                            years |-> ExtractExperienceYears(t)]]

\* lines 318-391 on the analyzer whose handle is pipeline
AnalyzeResumeMatch(pipeline, load_ok, output, text, description, skills, experience) ==
    LET resume_skills == ResumeSignals[text].skills
        resume_experience == ResumeSignals[text].years
        sim == CalculateSimilarity(pipeline, load_ok, output, text, description)
    IN  [similarity_pipeline |-> sim.similarity_pipeline,
         similarity_score |-> sim.value,
         result |-> IF sim.raised THEN [raised |-> TRUE]
                    ELSE MatchResultOf(resume_skills, resume_experience,
                                       skills, experience, sim.value)]

(***************************************************************************)
(* The match engine as a state machine (SpecMatch): up to MaxCalls calls   *)
(* of analyze_resume_match on the global resume_analyzer with the same     *)
(* arguments.  The embedding model is a deterministic function of the two  *)
(* texts, so model_output is chosen once; whether loading the model        *)
(* succeeds is chosen anew on each call made while the handle is None.     *)
(***************************************************************************)
\* extract_text_from_file is not called
ExtractIdle ==
    /\ pc = "idle"
    /\ doc = [content |-> <<>>, pdf |-> NoPdf, docx |-> NoDocx, alt |-> NoAlt]
    /\ filename = <<>>
    /\ extraction = NoExtraction

InitMatch ==
    /\ ExtractIdle
    /\ SignalsIdle
    /\ ThreadsIdle
    /\ BulkIdle
    /\ JobPostIdle
    /\ similarity_pipeline = "None"
    /\ resume_text \in ResumeTexts
    /\ job_description \in JobDescriptions
    /\ required_skills \in RequiredSkillLists
    /\ required_experience \in RequiredExperiences
    /\ model_output \in ModelOutputs
    /\ calls = 0
    /\ similarity_score = FracOfInt(0)
    /\ result = [raised |-> FALSE]
    /\ prev_result = [raised |-> FALSE]

CallAnalyzeResumeMatch(load_ok) ==
    LET call == AnalyzeResumeMatch(similarity_pipeline, load_ok, model_output,
                    resume_text, job_description, required_skills, required_experience)
    IN  /\ calls < MaxCalls
        /\ similarity_pipeline' = call.similarity_pipeline
        /\ similarity_score' = call.similarity_score
        /\ result' = call.result
        /\ prev_result' = result
        /\ calls' = calls + 1
        /\ UNCHANGED <<resume_text, job_description, required_skills,
                       required_experience, model_output>>
        /\ UNCHANGED outside_match_vars

\* the handle is loaded already, or loading it succeeds
AnalyzeWithModel == CallAnalyzeResumeMatch(TRUE)

\* the handle is None and loading it raises
AnalyzeLoadFails ==
    /\ similarity_pipeline = "None"
    /\ CallAnalyzeResumeMatch(FALSE)

NextMatch == AnalyzeWithModel \/ AnalyzeLoadFails

SpecMatch == InitMatch /\ [][NextMatch]_vars

(***************************************************************************)
(* The signal extractors as a state machine (SpecSignals): one call of     *)
(* extract_experience_years and one of extract_skills_from_text on a text  *)
(* made of one or two lines.                                               *)
(***************************************************************************)
\* "5+ years of experience in Python"
PhraseFivePlus ==
    <<"5","+"," ","y","e","a","r","s"," ","o","f"," ","e","x","p","e","r","i",
      "e","n","c","e"," ","i","n"," ","P","y","t","h","o","n">>

\* "60 years old"
PhraseSixtyOld ==
    <<"6","0"," ","y","e","a","r","s"," ","o","l","d">>

\* "no figures here"
PhraseNoFigures ==
    <<"n","o"," ","f","i","g","u","r","e","s"," ","h","e","r","e">>

\* "Experience: 12 Years"
PhraseExperienceColon ==
    <<"E","x","p","e","r","i","e","n","c","e",":"," ","1","2"," ","Y","e","a",
      "r","s">>

\* "3 years"
PhraseThree ==
    <<"3"," ","y","e","a","r","s">>

\* "70 years of experience"
PhraseSeventy ==
    <<"7","0"," ","y","e","a","r","s"," ","o","f"," ","e","x","p","e","r","i",
      "e","n","c","e">>

\* "51 year"
PhraseFiftyOne ==
    <<"5","1"," ","y","e","a","r">>

\* "0 years"
PhraseZero ==
    <<"0"," ","y","e","a","r","s">>

\* "2 years as developer"
PhraseAsDeveloper ==
    <<"2"," ","y","e","a","r","s"," ","a","s"," ","d","e","v","e","l","o","p",
      "e","r">>

\* "Skills: go, C++"
PhraseSkills ==
    <<"S","k","i","l","l","s",":"," ","g","o",","," ","C","+","+">>

\* "C++ and C#"
PhraseCpp ==
    <<"C","+","+"," ","a","n","d"," ","C","#">>

\* "Skills:"
PhraseHeadingOnly ==
    <<"S","k","i","l","l","s",":">>

\* "toolset vim"
PhraseToolset ==
    <<"t","o","o","l","s","e","t"," ","v","i","m">>

SignalPhrases ==
    {PhraseFivePlus,
     PhraseHeadingOnly,
     PhraseToolset,
     PhraseCpp,
     PhraseSixtyOld,
     PhraseNoFigures,
     PhraseExperienceColon,
     PhraseThree,
     PhraseSeventy,
     PhraseFiftyOne,
     PhraseZero,
     PhraseAsDeveloper,
     PhraseSkills}

\* "tools:" and a candidate of 49 characters, the ligature fi and 48 times a
PhraseLigature ==
    <<"t","o","o","l","s",":","U+FB01">> \o [i \in 1..48 |-> "a"]

\* one phrase, or two on successive lines
SignalTexts ==
    SignalPhrases \cup {a \o <<"\n">> \o b : a \in SignalPhrases, b \in SignalPhrases}
        \cup {PhraseLigature}

InitSignals ==
    /\ ExtractIdle
    /\ MatchIdle
    /\ ThreadsIdle
    /\ BulkIdle
    /\ JobPostIdle
    /\ signal_text \in SignalTexts
    /\ experience_years = [returned |-> FALSE, value |-> 0]
    /\ skills_found = [returned |-> FALSE, value |-> {}]

CallExtractExperienceYears ==
    /\ ~experience_years.returned
    /\ experience_years' = [returned |-> TRUE, value |-> ExtractExperienceYears(signal_text)]
    /\ UNCHANGED <<signal_text, skills_found>>
    /\ UNCHANGED outside_signal_vars

CallExtractSkillsFromText ==
    /\ ~skills_found.returned
    /\ skills_found' = [returned |-> TRUE, value |-> ExtractSkillsFromText(signal_text)]
    /\ UNCHANGED <<signal_text, experience_years>>
    /\ UNCHANGED outside_signal_vars

NextSignals == CallExtractExperienceYears \/ CallExtractSkillsFromText

SpecSignals == InitSignals /\ [][NextSignals]_vars

(***************************************************************************)
(* calculate_similarity called from NumThreads threads on the one global   *)
(* resume_analyzer (SpecThreads).  The method takes no lock, so a thread   *)
(* can be preempted between any two of its statements; each action is one  *)
(* statement (or run of statements that touch no shared state) of one      *)
(* thread.  thread_pc[t] is [at, left]: where the thread stands and how     *)
(* many calls it still makes.                                              *)
(***************************************************************************)
Threads == 1..NumThreads

InitThreads ==
    /\ ExtractIdle
    /\ SignalsIdle
    /\ BulkIdle
    /\ JobPostIdle
    /\ similarity_pipeline = "None"
    /\ resume_text \in {ExampleResume, TextX}
    /\ job_description \in {TextJobPython, TextX}
    /\ model_output \in ModelOutputs
    /\ required_skills = <<>>
    /\ required_experience = 0
    /\ calls = 0
    /\ similarity_score = FracOfInt(0)
    /\ result = [raised |-> FALSE]
    /\ prev_result = [raised |-> FALSE]
    /\ thread_pc = [t \in Threads |-> [at |-> "idle", left |-> MaxThreadCalls]]
    /\ thread_value = [t \in Threads |-> FracOfInt(0)]
    /\ models_constructed = 0

\* thread t moves to position at; the shared handle and the counter stay
ThreadGoes(t, at) ==
    /\ thread_pc' = [thread_pc EXCEPT ![t].at = at]
    /\ UNCHANGED <<similarity_pipeline, thread_value, models_constructed>>
    /\ UNCHANGED outside_thread_vars

\* line 275: the thread enters calculate_similarity
EnterCalculateSimilarity(t) ==
    /\ thread_pc[t].at = "idle"
    /\ thread_pc[t].left > 0
    /\ thread_pc' = [thread_pc EXCEPT ![t] = [at |-> "test", left |-> @.left - 1]]
    /\ UNCHANGED <<similarity_pipeline, thread_value, models_constructed>>
    /\ UNCHANGED outside_thread_vars

\* line 279: if self.similarity_pipeline is None
TestHandle(t) ==
    /\ thread_pc[t].at = "test"
    /\ ThreadGoes(t, IF similarity_pipeline = "None" THEN "construct" ELSE "embed")

\* lines 280-284: pipeline(...) returns a model, which is stored in the handle
ConstructModel(t) ==
    /\ thread_pc[t].at = "construct"
    /\ models_constructed' = models_constructed + 1
    /\ similarity_pipeline' = "loaded"
    /\ thread_pc' = [thread_pc EXCEPT ![t].at = "embed"]
    /\ UNCHANGED thread_value
    /\ UNCHANGED outside_thread_vars

\* lines 280-284: the import or pipeline(...) raises; the handle is not assigned
ConstructRaises(t) ==
    /\ thread_pc[t].at = "construct"
    /\ ThreadGoes(t, "except")

\* lines 287-299: embeddings and cosine, returned, unless the model raises
EmbedAndReturn(t) ==
    /\ thread_pc[t].at = "embed"
    /\ IF model_output.raises
       THEN ThreadGoes(t, "except")
       ELSE /\ thread_value' = [thread_value EXCEPT ![t] = model_output.cos]
            /\ thread_pc' = [thread_pc EXCEPT ![t].at = "idle"]
            /\ UNCHANGED <<similarity_pipeline, models_constructed>>
            /\ UNCHANGED outside_thread_vars

\* lines 300-303: the except clause returns the fallback value
ExceptAndReturn(t) ==
    /\ thread_pc[t].at = "except"
    /\ thread_value' = [thread_value EXCEPT
                            ![t] = SimpleTextSimilarity(resume_text, job_description)]
    /\ thread_pc' = [thread_pc EXCEPT ![t].at = "idle"]
    /\ UNCHANGED <<similarity_pipeline, models_constructed>>
    /\ UNCHANGED outside_thread_vars

NextThreads ==
    \E t \in Threads :
        \/ EnterCalculateSimilarity(t)
        \/ TestHandle(t)
        \/ ConstructModel(t)
        \/ ConstructRaises(t)
        \/ EmbedAndReturn(t)
        \/ ExceptAndReturn(t)

SpecThreads == InitThreads /\ [][NextThreads]_vars

(***************************************************************************)
(* analyze_multiple_resumes as a state machine (SpecBulk): the request has *)
(* passed its validation (names parsed, requisition and job post found);   *)
(* each step is one turn of the loop over the files, the last step builds  *)
(* the response.  model_output maps each resume text to what the embedding *)
(* model yields for it and the job description.                            *)
(***************************************************************************)
TxtFile(name, content) ==
    [filename |-> name,
     doc |-> [content |-> content, pdf |-> NoPdf, docx |-> NoDocx, alt |-> NoAlt]]

\* uploads: two readable text files, a spreadsheet, an empty file, a blank
\* file and a file named .pdf that is no PDF
BulkFiles ==
    {TxtFile(<<"a", ".", "t", "x", "t">>, Utf8Encode(TextX)),
     TxtFile(<<"b", ".", "T", "X", "T">>, Utf8Encode(TextJavaScript)),
     TxtFile(<<"c", ".", "x", "l", "s", "x">>, Utf8Encode(TextX)),
     TxtFile(<<"d", ".", "t", "x", "t">>, <<>>),
     TxtFile(<<"e", ".", "t", "x", "t">>, <<32>>),
     TxtFile(<<"f", ".", "p", "d", "f">>, Utf8Encode(TextX))}

\* line 206 for each upload of the model
BulkExtraction == [file \in BulkFiles |-> ExtractTextFromFile(file.doc, file.filename)]

BulkTexts == {TextX, TextJavaScript}

BulkModelOutputs ==
    {[raises |-> TRUE, cos |-> FracOfInt(0)],
     [raises |-> FALSE, cos |-> Frac(3332, 10000)],
     [raises |-> FALSE, cos |-> FracOfInt(1)]}

\* the job post of the request
BulkJobDescription == TextX
BulkRequiredSkills == << <<"J", "a", "v", "a">> >>
BulkRequiredExperience == 0

\* line 215 for each resume text of the model, by the state of the handle,
\* whether a load succeeds, and what the embedding model yields
BulkAnalysis == [pipeline \in {"None", "loaded"}, load_ok \in BOOLEAN, output \in BulkModelOutputs, text \in BulkTexts |-> AnalyzeResumeMatch(pipeline, load_ok, output, text, BulkJobDescription, BulkRequiredSkills, BulkRequiredExperience)]

InitBulk ==
    /\ ExtractIdle
    /\ SignalsIdle
    /\ ThreadsIdle
    /\ JobPostIdle
    /\ similarity_pipeline = "None"
    /\ resume_text = <<>>
    /\ job_description = BulkJobDescription
    /\ required_skills = BulkRequiredSkills
    /\ required_experience = BulkRequiredExperience
    /\ model_output \in [BulkTexts -> BulkModelOutputs]
    /\ calls = 0
    /\ similarity_score = FracOfInt(0)
    /\ result = [raised |-> FALSE]
    /\ prev_result = [raised |-> FALSE]
    /\ batch \in SeqsUpTo(BulkFiles, MaxFiles)
    /\ position = 1
    /\ analyses = <<>>
    /\ counters = [matches |-> 0, partial_matches |-> 0, not_matches |-> 0]
    /\ db_analyses = <<>>
    /\ server_log = <<>>
    /\ response = NoResponse

\* lines 242-247
CountMatch(c, is_match) ==
    IF is_match = "Match" THEN [c EXCEPT !.matches = @ + 1]
    ELSE IF is_match = "Partial Match" THEN [c EXCEPT !.partial_matches = @ + 1]
    ELSE [c EXCEPT !.not_matches = @ + 1]

\* lines 219-234: the row for the file at index i
AnalysisRow(i, file, text, analysis_result) ==
    [candidate |-> i,
     resume_filename |-> file.filename,
     resume_content |-> text,
     is_match |-> analysis_result.is_match,
     analysis_details |-> analysis_result]

\* the turn continues without a row; printed is what it prints
ContinueLoop(printed) ==
    /\ position' = position + 1
    /\ server_log' = server_log \o printed
    /\ UNCHANGED <<batch, analyses, counters, db_analyses, response, similarity_pipeline>>
    /\ UNCHANGED outside_bulk_vars

\* what the database session does with the row of lines 236-238: both calls
\* succeed, db.commit() raises, or db.refresh() raises after the commit
DbOutcomes == {"ok", "commit raises", "refresh raises"}

\* what line 249 prints for them
DbErrors == {"db: " \o o : o \in DbOutcomes \ {"ok"}}

\* lines 196-250: one turn of the loop, on the file at position
ProcessFile(load_ok, db_outcome) ==
    /\ ~response.returned
    /\ position <= Len(batch)
    /\ LET file == batch[position]
           extracted == BulkExtraction[file]
       IN  IF ~RouterAcceptsFileName(file.filename)
           THEN load_ok /\ db_outcome = "ok" /\ ContinueLoop(<<>>)
           ELSE IF ~extracted.ok
           THEN /\ load_ok
                /\ db_outcome = "ok"
                /\ ContinueLoop(<<[filename |-> file.filename, error |-> extracted.err]>>)
           ELSE LET call == BulkAnalysis[similarity_pipeline, load_ok,
                                         model_output[extracted.text], extracted.text]
                    row == AnalysisRow(position, file, extracted.text, call.result)
                IN  /\ similarity_pipeline' = call.similarity_pipeline
                    /\ db_analyses' = IF db_outcome = "commit raises" THEN db_analyses
                                      ELSE Append(db_analyses, row)
                    /\ analyses' = IF db_outcome = "ok" THEN Append(analyses, row)
                                   ELSE analyses
                    /\ counters' = IF db_outcome = "ok"
                                   THEN CountMatch(counters, call.result.is_match)
                                   ELSE counters
                    /\ server_log' = IF db_outcome = "ok" THEN server_log
                                     ELSE Append(server_log,
                                              [filename |-> file.filename,
                                               error |-> "db: " \o db_outcome])
                    /\ position' = position + 1
                    /\ UNCHANGED <<batch, response>>
                    /\ UNCHANGED outside_bulk_vars

\* the database session raises at most MaxDbRaises times in a request
DbMayRaise ==
    Cardinality({k \in DOMAIN server_log : server_log[k].error \in DbErrors}) < MaxDbRaises

\* one turn of the loop: the model loads or fails to load (when the handle
\* is None), and the database session commits or raises
ProcessNextFile ==
    /\ ~response.returned
    /\ \E load_ok \in BOOLEAN, db_outcome \in DbOutcomes :
           /\ load_ok \/ similarity_pipeline = "None"
           /\ db_outcome = "ok" \/ DbMayRaise
           /\ ProcessFile(load_ok, db_outcome)

\* lines 255-261
ReturnBulkResponse ==
    /\ ~response.returned
    /\ position > Len(batch)
    /\ response' = [returned |-> TRUE,
                    total_candidates |-> Len(analyses),
                    matches |-> counters.matches,
                    partial_matches |-> counters.partial_matches,
                    not_matches |-> counters.not_matches,
                    candidates |-> analyses]
    /\ UNCHANGED <<batch, position, analyses, counters, db_analyses, server_log,
                   similarity_pipeline>>
    /\ UNCHANGED outside_bulk_vars

NextBulk == ProcessNextFile \/ ReturnBulkResponse

SpecBulk == InitBulk /\ [][NextBulk]_vars

(***************************************************************************)
(* create_job_post (routers/job_post.py) as a state machine (SpecJobPost): *)
(* each step is one request, handled to its answer.  The request names the *)
(* authenticated user and a requisition id; the environment decides        *)
(* whether the description generator, its fallback and the commit raise.   *)
(***************************************************************************)
Users == {1, 2}
RequisitionIds == {1, 2}
\* the ids a request can name: those of the table and one no row has
RequestedIds == RequisitionIds \cup {99999}

\* a requisitions table: each id is absent or owned by one user
RequisitionTables ==
    {{[id |-> i, created_by |-> owner[i]] : i \in {j \in RequisitionIds : owner[j] # 0}} :
        owner \in [RequisitionIds -> Users \cup {0}]}

Failures == [ai : BOOLEAN, fallback : BOOLEAN, commit : BOOLEAN]

\* lines 79-83: the requisition with this id created by this user, if any
FindRequisition(table, user, id) == {r \in table : r.id = id /\ r.created_by = user}

\* lines 78-142, the body of the try: what it does to the table of job posts
\* and how it ends (returns the post, raises HTTPException, raises otherwise)
CreateJobPostBody(table, posts, user, id, fails) ==
    LET found == FindRequisition(table, user, id)
        post == [id |-> Len(posts) + 1, requisition_id |-> id, created_by |-> user,
                 description |-> IF fails.ai THEN "fallback" ELSE "generated"]
    IN  IF found = {}
        THEN [ends |-> "HTTPException", status_code |-> 404, job_posts |-> posts]
        ELSE IF fails.ai /\ fails.fallback
        THEN [ends |-> "Exception", status_code |-> 0, job_posts |-> posts]
        ELSE IF fails.commit
        THEN [ends |-> "Exception", status_code |-> 0, job_posts |-> posts]
        ELSE [ends |-> "return", status_code |-> 200, job_posts |-> Append(posts, post)]

\* the handler without its `except HTTPException: raise` clause
CreateJobPost_NoReraise(table, posts, user, id, fails) ==
    LET body == CreateJobPostBody(table, posts, user, id, fails)
    IN  IF body.ends = "return" THEN body
        ELSE [ends |-> "HTTPException", status_code |-> 500, job_posts |-> posts]

\* lines 69-155: the handler, with its two except clauses
CreateJobPost(table, posts, user, id, fails) ==
    LET body == CreateJobPostBody(table, posts, user, id, fails)
    IN  IF body.ends = "HTTPException" THEN body
        ELSE IF body.ends = "Exception"
        THEN [ends |-> "HTTPException", status_code |-> 500, job_posts |-> posts]
        ELSE body

InitJobPost ==
    /\ ExtractIdle
    /\ MatchIdle
    /\ SignalsIdle
    /\ ThreadsIdle
    /\ BulkIdle
    /\ requisitions \in RequisitionTables
    /\ job_posts = <<>>
    /\ job_request = NoJobRequest
    /\ job_response = NoJobResponse

PostJobPost ==
    \E user \in Users, id \in RequestedIds, fails \in Failures :
        LET answer == CreateJobPost(requisitions, job_posts, user, id, fails)
        IN  /\ Len(job_posts) < MaxJobPosts
            /\ job_request' = [user |-> user, requisition_id |-> id]
            /\ job_response' = [status_code |-> answer.status_code]
            /\ job_posts' = answer.job_posts
            /\ UNCHANGED requisitions
            /\ UNCHANGED outside_job_vars

NextJobPost == PostJobPost

SpecJobPost == InitJobPost /\ [][NextJobPost]_vars

(***************************************************************************)
(* Properties of extract_text_from_file (SpecExtract).                     *)
(***************************************************************************)
ErrEmptyInput ==
    "Error extracting text from {filename}: File content is empty"
ErrUnsupportedFormat ==
    "Error extracting text from {filename}: Unsupported file format: {file_extension}. Supported formats: PDF, DOC, DOCX, TXT"

NamePdf  == <<"r", ".", "p", "d", "f">>
NameXlsx == <<"r", ".", "x", "l", "s", "x">>
NameTxt  == <<"r", ".", "t", "x", "t">>

\* C7: a zero-length payload fails with the empty-input error whatever the
\* file name, and no format extractor is invoked.
C7_EmptyInputBeforeDispatch ==
    (pc = "done" /\ doc.content = <<>>)
        => /\ ~extraction.ok
           /\ extraction.err = ErrEmptyInput
           /\ extraction.invoked = {}

C7_Witness ==
    /\ pc = "done"
    /\ doc.content = <<>>
    /\ filename = NamePdf
    /\ extraction.err = ErrEmptyInput

\* C8 (as claimed): a non-empty payload whose file name does not end in
\* .pdf, .doc, .docx or .txt (any letter case) fails with the
\* unsupported-format error and no parser is invoked.
C8_UnsupportedRejectedBeforeParsing ==
    (pc = "done" /\ doc.content # <<>> /\ ~RouterAcceptsFileName(filename))
        => /\ ~extraction.ok
           /\ extraction.err = ErrUnsupportedFormat
           /\ extraction.invoked = {}

\* C9: a call that returns normally returns a non-empty text without leading
\* or trailing whitespace.
C9_SuccessIsTrimmedNonEmpty ==
    (pc = "done" /\ extraction.ok)
        => /\ extraction.text # <<>>
           /\ ~IsSpace(extraction.text[1])
           /\ ~IsSpace(extraction.text[Len(extraction.text)])

C9_Witness ==
    /\ pc = "done"
    /\ extraction.ok
    /\ extraction.invoked = {"_extract_from_pdf"}
    /\ \E i \in DOMAIN doc.pdf.pages : doc.pdf.pages[i].text = <<" ", "a", " ">>
    /\ extraction.text = <<"a">>

\* the strings whose UTF-8 encodings are among the payloads
CharAlphabet == {" ", "A", "U+0085", "U+00A0", "U+00C2"}
Utf8Strings == SeqsUpTo(CharAlphabet, MaxPayloadLen) \cup {ExampleLine}
Utf8Encoded == [s \in Utf8Strings |-> Utf8Encode(s)]

\* C10: a .txt payload that is the UTF-8 encoding of a string with a
\* non-whitespace character extracts to exactly that string, stripped.
C10_TxtUtf8RoundTrip ==
    (pc = "done" /\ EndsWith(Lower(filename), <<".">> \o ExtTxt))
        => \A s \in Utf8Strings :
               (Utf8Encoded[s] = doc.content /\ \E i \in DOMAIN s : ~IsSpace(s[i]))
                   => /\ extraction.ok
                      /\ extraction.text = Strip(s)

C10_Witness ==
    /\ pc = "done"
    /\ filename = NameTxt
    /\ doc.content = Utf8Encode(ExampleLine)
    /\ extraction.ok
    /\ extraction.text = ExampleLine

(***************************************************************************)
(* Properties of calculate_similarity and analyze_resume_match             *)
(* (SpecMatch).  Percentages are in hundredths: 100.00 is 10000.           *)
(***************************************************************************)
Returned_(r) == ~r.raised

\* the keys of the dictionary analyze_resume_match returns
MatchResultKeys ==
    {"raised", "match_percentage", "confidence_score", "is_match",
     "suitability_rating", "skills_match", "experience_match",
     "resume_experience", "required_experience", "gaps_analysis", "resume_skills"}

C2_ReportedPercentageAgreesWithStatus ==
    calls > 0 /\ Returned_(result) =>
        /\ result.match_percentage >= 8000 <=> result.is_match = "Match"
        /\ (6000 <= result.match_percentage /\ result.match_percentage < 8000)
               <=> result.is_match = "Partial Match"
        /\ result.match_percentage < 6000 <=> result.is_match = "Not a Match"

\* C3: analyze_resume_match is total: every call returns a MatchResult and
\* none raises, also when loading or invoking the embedding model raises.
C3_AnalyzeResumeMatchIsTotal ==
    calls > 0 => Returned_(result) /\ DOMAIN result = MatchResultKeys

\* a call whose model load failed returned a result scored by the fallback
C3_Witness ==
    /\ calls > 0
    /\ similarity_pipeline = "None"
    /\ Returned_(result)
    /\ similarity_score = SimpleTextSimilarity(resume_text, job_description)
    /\ similarity_score.num > 0

\* C4: two successive calls of analyze_resume_match on the same analyzer
\* with identical arguments return identical MatchResults, whatever the
\* state of the model handle (not loaded, loaded, load failing on one call).
C4_RepeatedCallsReturnSameResult ==
    calls >= 2 => result = prev_result

\* C5: when required_skills is empty the result reports a skill-match
\* percentage of 0 with empty matched and missing lists, whatever skills
\* the resume shows, and the skill term adds 0 to the overall percentage.
C5_NoRequiredSkillsScoreZero ==
    calls > 0 /\ Returned_(result) /\ required_skills = <<>> =>
        /\ result.skills_match = [matched_skills |-> <<>>, missing_skills |-> <<>>,
                                  match_percentage |-> 0]
        /\ result.match_percentage =
               Round2(OverallMatch(FracOfInt(0), result.experience_match, similarity_score))

\* a call without required skills on a resume that shows skills
C5_Witness ==
    /\ calls > 0
    /\ Returned_(result)
    /\ required_skills = <<>>
    /\ result.resume_skills # {}

\* C6: calculate_similarity returns a value in [0.0, 1.0] for every pair of
\* texts, on the cosine path and on the Jaccard fallback path.
C6_SimilarityWithinUnitInterval ==
    calls > 0 /\ Returned_(result) =>
        /\ 0 <= similarity_score.num
        /\ similarity_score.num <= similarity_score.den

(***************************************************************************)
(* Properties of extract_experience_years (SpecSignals).                   *)
(***************************************************************************)
\* the integers a list of patterns captures in the lower-cased text
CapturedYears(patterns, t) ==
    {ParseInt(m) : m \in UNION {Range(FindAll(patterns[k], Lower(t), FALSE)) :
                                    k \in DOMAIN patterns}}

\* the largest element of a non-empty finite set of integers
SetMax(S) == CHOOSE n \in S : \A m \in S : m <= n

\* the integers written in the text: its maximal runs of digits
WrittenNumbers(t) ==
    {ParseInt(SubSeq(t, ij[1], ij[2])) :
        ij \in {x \in (DOMAIN t) \X (DOMAIN t) :
                  /\ x[1] <= x[2]
                  /\ \A k \in x[1]..x[2] : t[k] \in DigitChars
                  /\ (x[1] = 1 \/ t[x[1] - 1] \notin DigitChars)
                  /\ (x[2] = Len(t) \/ t[x[2] + 1] \notin DigitChars)}}

\* C11: extract_experience_years returns the maximum of 0, every integer a
\* specific experience pattern captures, and every integer in [1, 50] a
\* broad "<N>(+) years" pattern captures: 5 for a text with "5+ years of
\* experience in Python" and no larger figure, 0 for a text without "year",
\* and 0 for "60 years old".
C11_ExperienceYearsIsMaximum ==
    experience_years.returned =>
        /\ experience_years.value =
               SetMax({0} \cup CapturedYears(experience_patterns, signal_text)
                          \cup {n \in CapturedYears(simple_patterns, signal_text) :
                                  1 <= n /\ n <= 50})
        /\ (Contains(signal_text, PhraseFivePlus)
            /\ \A n \in WrittenNumbers(signal_text) : n <= 5)
               => experience_years.value = 5
        /\ ~Contains(Lower(signal_text), <<"y", "e", "a", "r">>)
               => experience_years.value = 0
        /\ signal_text = PhraseSixtyOld => experience_years.value = 0

\* the broad patterns capture 60, out of range, next to a smaller figure
C11_Witness ==
    /\ experience_years.returned
    /\ Contains(signal_text, PhraseSixtyOld)
    /\ 60 \in CapturedYears(simple_patterns, signal_text)
    /\ experience_years.value \in 1..50

(***************************************************************************)
(* Properties of the fallback of calculate_similarity (SpecMatch).         *)
(***************************************************************************)
\* the tokens of a text: its maximal runs of non-whitespace, lower-cased
TokenSet(t) ==
    {SubSeq(Lower(t), ij[1], ij[2]) :
        ij \in {x \in (DOMAIN t) \X (DOMAIN t) :
                  /\ x[1] <= x[2]
                  /\ \A k \in x[1]..x[2] : ~IsSpace(t[k])
                  /\ (x[1] = 1 \/ IsSpace(t[x[1] - 1]))
                  /\ (x[2] = Len(t) \/ IsSpace(t[x[2] + 1]))}}

\* every call so far took the fallback: the load failed each time, or the
\* model raises on this pair of texts
OnlyFallbackSoFar == similarity_pipeline = "None" \/ model_output.raises

\* C12: when the primary backend is unavailable or raises, the similarity is
\* |A n B| / |A u B| over the lower-cased whitespace-separated tokens of the
\* two texts, 0.0 when either set is empty, and the same on every call.
C12_FallbackIsJaccard ==
    calls > 0 /\ OnlyFallbackSoFar /\ Returned_(result) =>
        LET A == TokenSet(resume_text)
            B == TokenSet(job_description)
        IN  /\ (A = {} \/ B = {}) => similarity_score.num = 0
            /\ (A # {} /\ B # {}) =>
                   similarity_score.num * Cardinality(A \cup B)
                       = similarity_score.den * Cardinality(A \cap B)
            /\ calls >= 2 => result.confidence_score = prev_result.confidence_score

\* a second fallback call on texts that share tokens only after lower-casing
C12_Witness ==
    /\ calls = 2
    /\ OnlyFallbackSoFar
    /\ Returned_(result)
    /\ resume_text = ExampleResume
    /\ job_description = TextJobUpper
    /\ similarity_score = Frac(1, 5)

(***************************************************************************)
(* Properties of the shared model handle (SpecThreads).                    *)
(***************************************************************************)
\* C13: the embedding model of the shared analyzer is constructed at most
\* once per process, whatever the interleaving of the concurrent calls of
\* calculate_similarity that start while the handle is None.
C13_ModelConstructedAtMostOnce == models_constructed <= 1

(***************************************************************************)
(* Properties of analyze_multiple_resumes (SpecBulk).                      *)
(***************************************************************************)
\* the file at index i has an accepted name and text that can be extracted
FileIsReadable(i) ==
    /\ RouterAcceptsFileName(batch[i].filename)
    /\ ExtractTextFromFile(batch[i].doc, batch[i].filename).ok

\* the rows of a list that belong to the file at index i
RowsOf(rows, i) == {k \in DOMAIN rows : rows[k].candidate = i}

\* the database session raised on a file of this name
DbRaisedFor(name) ==
    \E k \in DOMAIN server_log :
        /\ server_log[k].filename = name
        /\ server_log[k].error \in DbErrors

\* every file was taken in turn, and each readable one has exactly one
\* stored row, which is in the response, unless the database session raised
BatchNotAborted ==
    response.returned =>
        /\ position = Len(batch) + 1
        /\ \A i \in DOMAIN batch :
               FileIsReadable(i) =>
                   \/ /\ Cardinality(RowsOf(db_analyses, i)) = 1
                      /\ Cardinality(RowsOf(response.candidates, i)) = 1
                      /\ \A k \in RowsOf(response.candidates, i) :
                             response.candidates[k] \in Range(db_analyses)
                   \/ DbRaisedFor(batch[i].filename)

\* the response says something about the file at index i
MentionedInResponse(i) ==
    \E k \in DOMAIN response.candidates :
        /\ response.candidates[k].candidate = i
        /\ response.candidates[k].resume_filename = batch[i].filename

\* C14: in bulk analysis a file that fails (unsupported extension, empty
\* payload, no extractable text, parser error) does not abort the batch,
\* every file that extracts and analyses gets exactly one stored analysis
\* that is in the response, and the failing file's name and reason reach
\* the caller.
C14_BulkFailuresSurfaced ==
    /\ BatchNotAborted
    /\ response.returned =>
           \A i \in DOMAIN batch : ~FileIsReadable(i) => MentionedInResponse(i)

RequisitionNotTheirs(req) ==
    \A r \in requisitions : ~(r.id = req.requisition_id /\ r.created_by = req.user)

\* C16: creating a job post for a requisition id that does not exist, or
\* that belongs to another user, answers 404 and stores no job post; the
\* 404 is not turned into a 500.
C16_MissingRequisitionIs404 ==
    [][(job_request' # job_request \/ job_response' # job_response \/ job_posts' # job_posts)
        /\ RequisitionNotTheirs(job_request')
           => /\ job_response'.status_code = 404
              /\ job_posts' = job_posts]_vars

\* a 404 for a requisition that exists but belongs to the other user
C16_Witness ==
    /\ job_response.status_code = 404
    /\ \E r \in requisitions :
           r.id = job_request.requisition_id /\ r.created_by # job_request.user

(***************************************************************************)
(* Properties of the scores of analyze_resume_match (SpecMatch).           *)
(***************************************************************************)
\* h is an integer nearest to n / d
IsNearest(h, n, d) == 2 * Abs(h * d - n) <= d

\* C17: match_percentage is 0.4 * skill share + 0.3 * (100 if the experience
\* suffices, else 0) + 0.3 * (similarity * 100), rounded to two decimals,
\* where the skill share is matched / required * 100 and the experience
\* suffices when the observed years reach the required ones;
\* confidence_score is the same similarity * 100 rounded to two decimals.
C17_ScoreIsWeightedSum ==
    (calls > 0 /\ ~result.raised) =>
        LET matched == Len(result.skills_match.matched_skills)
            required == IF required_skills = <<>> THEN 1 ELSE Len(required_skills)
            e == IF result.experience_match THEN 1 ELSE 0
            num == similarity_score.num
            den == similarity_score.den
            \* the weighted sum is total / (required * den)
            total == 40 * matched * den + 30 * e * required * den + 30 * num * required
        IN  /\ result.experience_match = (result.resume_experience >= required_experience)
            /\ IsNearest(result.skills_match.match_percentage, 10000 * matched, required)
            /\ IsNearest(result.match_percentage, 100 * total, required * den)
            /\ IsNearest(result.confidence_score, 10000 * num, den)

\* two of three required skills matched, the experience suffices and the
\* similarity is 0.3332
C17_Witness ==
    /\ calls > 0
    /\ ~result.raised
    /\ Len(required_skills) = 3
    /\ Len(result.skills_match.matched_skills) = 2
    /\ result.experience_match
    /\ required_experience > 0
    /\ similarity_score = Frac(3332, 10000)
    /\ result.confidence_score = 3332

\* a occurs in b as a run of consecutive characters
IsSubstring(a, b) ==
    \E i \in 0..(Len(b) - Len(a)) : \A k \in 1..Len(a) : b[i + k] = a[k]

\* "Python3" and "Cobol"
SkillsPython3Cobol == << <<"P","y","t","h","o","n","3">>, <<"C","o","b","o","l">> >>

\* C18: a required skill is matched exactly when, both sides lower-cased, it
\* is a substring of some skill observed in the resume or some observed skill
\* is a substring of it; otherwise it is missing; when no skill is observed
\* every required skill is missing.
C18_SkillMatchedIffSubstring ==
    (calls > 0 /\ ~result.raised) =>
        LET matched == result.skills_match.matched_skills
            missing == result.skills_match.missing_skills
            observed == {Lower(o) : o \in result.resume_skills}
            Related(s) == \E o \in observed : IsSubstring(s, o) \/ IsSubstring(o, s)
        IN  /\ \A i \in DOMAIN required_skills :
                   LET s == Lower(required_skills[i])
                   IN  /\ (\E j \in DOMAIN matched : matched[j] = s) <=> Related(s)
                       /\ (\E j \in DOMAIN missing : missing[j] = s) <=> ~Related(s)
            /\ Len(matched) + Len(missing) = Len(required_skills)
            /\ result.resume_skills = {} =>
                   /\ matched = <<>>
                   /\ Len(missing) = Len(required_skills)

\* "python3" is matched because the observed "python" lies within it, and
\* "cobol" is missing
C18_Witness ==
    /\ calls > 0
    /\ ~result.raised
    /\ resume_text = ExampleResume
    /\ required_skills = SkillsPython3Cobol
    /\ result.skills_match.matched_skills = << Lower(SkillsPython3Cobol[1]) >>
    /\ result.skills_match.missing_skills = << Lower(SkillsPython3Cobol[2]) >>

\* C19: is_match is "Match" exactly when suitability_rating is "High",
\* "Partial Match" exactly when it is "Medium", "Not a Match" exactly when it
\* is "Low", and neither field takes another value.
C19_StatusAndRatingAgree ==
    (calls > 0 /\ ~result.raised) =>
        /\ result.is_match \in {"Match", "Partial Match", "Not a Match"}
        /\ result.suitability_rating \in {"High", "Medium", "Low"}
        /\ (result.is_match = "Match") <=> (result.suitability_rating = "High")
        /\ (result.is_match = "Partial Match") <=> (result.suitability_rating = "Medium")
        /\ (result.is_match = "Not a Match") <=> (result.suitability_rating = "Low")

\* a partial match below 70 percent
C19_Witness ==
    /\ calls > 0
    /\ ~result.raised
    /\ result.is_match = "Partial Match"
    /\ result.suitability_rating = "Medium"
    /\ result.match_percentage < 7000

(***************************************************************************)
(* Properties of _extract_from_txt (SpecExtract).                          *)
(***************************************************************************)
\* the encodings, in order, under which the payload decodes without error
Decodable(b) == SelectSeq(encodings, LAMBDA e : Decode(e, b).ok)

TxtFirstNonBlankDecoding ==
    (pc = "done" /\ EndsWith(Lower(filename), <<".">> \o ExtTxt) /\ extraction.ok)
        => LET nonblank == SelectSeq(Decodable(doc.content),
                               LAMBDA e : Strip(Decode(e, doc.content).text) # <<>>)
           IN  extraction.text =
                   IF nonblank # <<>>
                   THEN Strip(Decode(Head(nonblank), doc.content).text)
                   ELSE Strip(DecodeReplace(doc.content))

(***************************************************************************)
(* Properties of _extract_from_pdf (SpecExtract).                          *)
(***************************************************************************)
\* the call went to _extract_from_pdf and the reader opened the payload
PdfRead == pc = "done" /\ extraction.invoked = {"_extract_from_pdf"} /\ doc.pdf.opens

\* page i yields a text
PageYields(i) == ~doc.pdf.pages[i].raises /\ doc.pdf.pages[i].text # <<>>

\* page i yields a text that is not all whitespace
PageYieldsNonBlank(i) ==
    /\ ~doc.pdf.pages[i].raises
    /\ \E k \in DOMAIN doc.pdf.pages[i].text : ~IsSpace(doc.pdf.pages[i].text[k])

\* the texts of the pages that yield one, each closed by a newline, in page order
KeptPagesText ==
    Concat([i \in DOMAIN doc.pdf.pages |->
               IF PageYields(i) THEN doc.pdf.pages[i].text \o <<"\n">> ELSE <<>>])

\* C21: pages are visited in order; a page without text or whose extraction
\* raises is skipped without failing the document, the text of every other
\* page is kept in page order, and the document fails exactly when no page
\* yields non-whitespace text (a PDF without pages included).
C21_PdfSkipsPagesKeepsOrder ==
    PdfRead =>
        /\ extraction.ok <=> (\E i \in DOMAIN doc.pdf.pages : PageYieldsNonBlank(i))
        /\ extraction.ok => extraction.text = Strip(KeptPagesText)

\* a page that raises is skipped and the page after it is kept
C21_Witness ==
    /\ PdfRead
    /\ Len(doc.pdf.pages) = 2
    /\ doc.pdf.pages[1].raises
    /\ doc.pdf.pages[2].text = <<"b">>
    /\ extraction.ok
    /\ extraction.text = <<"b">>

(***************************************************************************)
(* Properties of _extract_from_docx (SpecExtract).                         *)
(***************************************************************************)
\* the call went to _extract_from_docx and docx.Document opened the payload
DocxRead == pc = "done" /\ extraction.invoked = {"_extract_from_docx"} /\ doc.docx.opens

\* what section i contributes as header and as footer, a problem in the
\* section costing the section what comes after the problem and nothing else
SectionHeaderText(i) ==
    LET section == doc.docx.sections[i]
    IN  IF HeaderFooterRaises(section.header) THEN <<>>
        ELSE HeaderFooterText(section.header)

SectionFooterText(i) ==
    LET section == doc.docx.sections[i]
    IN  IF HeaderFooterRaises(section.header) \/ HeaderFooterRaises(section.footer)
        THEN <<>>
        ELSE HeaderFooterText(section.footer)

\* paragraphs, table rows, all headers, all footers
HeadersBeforeFooters ==
    DocxParagraphsText(doc.docx.paragraphs) \o DocxTablesText(doc.docx.tables)
        \o Concat([i \in DOMAIN doc.docx.sections |-> SectionHeaderText(i)])
        \o Concat([i \in DOMAIN doc.docx.sections |-> SectionFooterText(i)])

\* C22 (as claimed): the primary extraction lists all paragraph text, then
\* all table-cell text row by row, then the text of all section headers, then
\* the text of all section footers, and a header or footer problem in one
\* section does not drop the headers and footers of the other sections.
C22_DocxHeadersBeforeFooters ==
    (DocxRead /\ ~doc.alt.opens /\ extraction.ok)
        => extraction.text = Strip(HeadersBeforeFooters)

\* what holds instead: header and footer alternate section by section, and
\* the first problem ends the sections loop
DocxSectionBySection ==
    (DocxRead /\ ~doc.alt.opens /\ extraction.ok)
        => extraction.text = Strip(DocxPrimaryText(doc.docx))

\* the call went to _extract_from_docx
DocxCalled == pc = "done" /\ extraction.invoked = {"_extract_from_docx"}

\* the primary path yields a text that is not blank
PrimaryYields == doc.docx.opens /\ Strip(DocxPrimaryText(doc.docx)) # <<>>

\* the texts and tails of the elements of word/document.xml, stripped, each
\* followed by a space; nothing when the archive or the document is missing
AlternativeText ==
    IF doc.alt.opens /\ doc.alt.has_document
    THEN Strip(Concat([i \in DOMAIN doc.alt.nodes |->
                 (IF Strip(doc.alt.nodes[i].text) # <<>>
                  THEN Strip(doc.alt.nodes[i].text) \o <<" ">> ELSE <<>>)
                 \o (IF Strip(doc.alt.nodes[i].tail) # <<>>
                     THEN Strip(doc.alt.nodes[i].tail) \o <<" ">> ELSE <<>>)]))
    ELSE <<>>

\* C23: for a Word payload the alternative extraction is tried whenever the
\* primary path yields no text or raises; its non-empty result is the
\* extracted text, and the document fails only when both paths yield no
\* text.  The alternative path reports its own errors as an empty result.
C23_DocxAlternativeFallback ==
    DocxCalled =>
        /\ PrimaryYields =>
               extraction.ok /\ extraction.text = Strip(DocxPrimaryText(doc.docx))
        /\ (~PrimaryYields /\ AlternativeText # <<>>) =>
               extraction.ok /\ extraction.text = AlternativeText
        /\ (~PrimaryYields /\ AlternativeText = <<>>) => ~extraction.ok

\* docx.Document rejects the payload and the alternative path reads "x"
C23_Witness ==
    /\ DocxCalled
    /\ ~doc.docx.opens
    /\ doc.alt.opens
    /\ extraction.ok
    /\ extraction.text = <<"x">>

(***************************************************************************)
(* Properties of extract_skills_from_text (SpecSignals).                   *)
(***************************************************************************)
\* the terms of the catalogue that are plain strings
CatalogueTerms ==
    UNION {{alternatives.args[i].s :
               i \in {j \in DOMAIN alternatives.args : alternatives.args[j].op = "lit"}} :
           alternatives \in {SkillAlternatives1, SkillAlternatives2, SkillAlternatives3,
                             SkillAlternatives4, SkillAlternatives5, SkillAlternatives6,
                             SkillAlternatives7, SkillAlternatives8, SkillAlternatives9,
                             SkillAlternatives10}}

\* the term stands in the text, in any letter case, between characters that
\* are whitespace or punctuation, or at the boundaries of the text
OccursAsWord(term, text) ==
    \E i \in 1..(Len(text) - Len(term) + 1) :
        /\ Lower(SubSeq(text, i, i + Len(term) - 1)) = Lower(term)
        /\ i = 1 \/ ~IsWordChar(text[i - 1])
        /\ i + Len(term) > Len(text) \/ ~IsWordChar(text[i + Len(term)])

Reported(term) == \E skill \in skills_found.value : Lower(skill) = Lower(term)

\* C24 (as claimed): every catalogue term that occurs in the text as a whole
\* word, in any letter case, is in the set extract_skills_from_text returns,
\* the terms ending in a non-letter such as C++ and C# included.
C24_CatalogueTermsFound ==
    skills_found.returned =>
        \A term \in CatalogueTerms :
            OccursAsWord(term, signal_text) => Reported(term)

\* what holds instead, on the texts of the model: the same for the terms that
\* begin and end with a letter or digit
CatalogueWordTermsFound ==
    skills_found.returned =>
        \A term \in {t \in CatalogueTerms : IsWordChar(t[1]) /\ IsWordChar(t[Len(t)])} :
            OccursAsWord(term, signal_text) => Reported(term)

\* the heading tokens, singular and plural
HeadingWords ==
    {<<"s","k","i","l","l">>, <<"s","k","i","l","l","s">>,
     <<"t","e","c","h","n","o","l","o","g","i","e">>,
     <<"t","e","c","h","n","o","l","o","g","i","e","s">>,
     <<"t","o","o","l">>, <<"t","o","o","l","s">>,
     <<"l","a","n","g","u","a","g","e">>, <<"l","a","n","g","u","a","g","e","s">>}

\* the line begins with a heading token that is a word of its own
IntroducedByHeading(line) ==
    \E token \in HeadingWords :
        /\ Len(line) >= Len(token)
        /\ Lower(SubSeq(line, 1, Len(token))) = token
        /\ Len(line) = Len(token) \/ ~IsWordChar(line[Len(token) + 1])

\* C25 (as claimed): every skill that is not a catalogue match stems from
\* the remainder of a line introduced by a heading token; the following line
\* gives no candidate, and a heading token in the middle of a line or inside
\* a longer word starts no candidate list.
C25_CandidatesOnlyFromHeadingLines ==
    skills_found.returned =>
        \A skill \in skills_found.value \ CatalogueSkills(signal_text) :
            \E k \in DOMAIN Split({"\n"}, signal_text) :
                LET line == Split({"\n"}, signal_text)[k]
                IN  /\ IntroducedByHeading(line)
                    /\ IsSubstring(Lower(skill), Lower(line))

\* the skill stands in the text in this letter case and is a catalogue term
IsCatalogueMatch(skill) ==
    /\ IsSubstring(skill, signal_text)
    /\ \E term \in CatalogueTerms : Lower(term) = Lower(skill)

\* trimmed, of 3 to 49 characters, in title case
IsNormalizedCandidate(skill) ==
    /\ Len(skill) >= 3
    /\ Len(skill) <= 49
    /\ ~IsSpace(skill[1])
    /\ ~IsSpace(skill[Len(skill)])
    /\ \A i \in DOMAIN skill :
           IF i = 1 \/ ~IsCased(skill[i - 1])
           THEN skill[i] \notin LowerSet
           ELSE skill[i] \notin UpperSet

\* trimmed, of 3 characters or more, in title case
IsTitledCandidate(skill) ==
    /\ Len(skill) >= 3
    /\ ~IsSpace(skill[1])
    /\ ~IsSpace(skill[Len(skill)])
    /\ \A i \in DOMAIN skill :
           IF i = 1 \/ ~IsCased(skill[i - 1])
           THEN skill[i] \notin LowerSet
           ELSE skill[i] \notin UpperSet

\* C26 (as claimed): every element of the set extract_skills_from_text returns is a
\* catalogue match in the letter case it has in the text, or a candidate that
\* is trimmed, has 3 to 49 characters and is in title case; a text without
\* any signal gives the empty set.
C26_SkillsAreMatchesOrCandidates ==
    skills_found.returned =>
        /\ \A skill \in skills_found.value :
               IsCatalogueMatch(skill) \/ IsNormalizedCandidate(skill)
        /\ signal_text = PhraseNoFigures => skills_found.value = {}

\* what holds instead: the upper bound on the length is met by the candidate
\* before it is put in title case, not by the element returned
SkillsAreMatchesOrTitled ==
    skills_found.returned =>
        /\ \A skill \in skills_found.value :
               IsCatalogueMatch(skill) \/ IsTitledCandidate(skill)
        /\ signal_text = PhraseNoFigures => skills_found.value = {}

(***************************************************************************)
(* Properties of the MatchResult (SpecMatch).                              *)
(***************************************************************************)
NoGapsMessage == "No significant gaps identified. Candidate meets all requirements."

\* the finding that names every missing skill
MissingSkillsFinding ==
    "Missing required skills: "
        \o Join(", ", [i \in DOMAIN result.skills_match.missing_skills |->
                          StrOf(result.skills_match.missing_skills[i])])

\* the finding that reports observed against required years
ExperienceFinding ==
    "Experience gap: Resume shows " \o ToString(result.resume_experience)
        \o " years, but " \o ToString(result.required_experience) \o "+ years required"

\* C27: the gap narrative is the "no significant gaps" message exactly when
\* no skill is missing and the experience suffices; otherwise it names every
\* missing skill when there are any, reports observed against required years
\* when the experience is insufficient, and joins the findings with "; ",
\* skills first.
C27_GapNarrative ==
    (calls > 0 /\ ~result.raised) =>
        LET none_missing == result.skills_match.missing_skills = <<>>
            enough == result.experience_match
        IN  /\ (result.gaps_analysis = NoGapsMessage) <=> (none_missing /\ enough)
            /\ (~none_missing /\ enough) =>
                   result.gaps_analysis = "Gaps identified: " \o MissingSkillsFinding
            /\ (none_missing /\ ~enough) =>
                   result.gaps_analysis = "Gaps identified: " \o ExperienceFinding
            /\ (~none_missing /\ ~enough) =>
                   result.gaps_analysis =
                       "Gaps identified: " \o MissingSkillsFinding \o "; " \o ExperienceFinding

\* skills are missing and the experience is insufficient
C27_Witness ==
    /\ calls > 0
    /\ ~result.raised
    /\ Len(result.skills_match.missing_skills) = 2
    /\ ~result.experience_match
    /\ result.resume_experience = 5
    /\ result.required_experience = 11
    /\ result.gaps_analysis =
           "Gaps identified: Missing required skills: rust, sql; Experience gap: Resume shows 5 years, but 11+ years required"

\* the entries of s at the positions in idx, in the order of s
AtPositions(s, idx) ==
    LET positions == SelectSeq([i \in 1..Len(s) |-> i], LAMBDA i : i \in idx)
    IN  [k \in 1..Len(positions) |-> s[positions[k]]]

\* "Go", "Cobol", "go"
SkillsGoCobolGo == << <<"G","o">>, <<"C","o","b","o","l">>, <<"g","o">> >>

\* C28: matched_skills and missing_skills partition the required skills:
\* each entry of required_skills, lower-cased and duplicates counted, is in
\* exactly one of the two lists, both in the order of required_skills, so the
\* lengths add up and the skill match percentage is between 0 and 100.
C28_SkillListsPartitionRequired ==
    (calls > 0 /\ ~result.raised) =>
        LET lowered == [i \in DOMAIN required_skills |-> Lower(required_skills[i])]
            matched == result.skills_match.matched_skills
            missing == result.skills_match.missing_skills
        IN  /\ \E idx \in SUBSET DOMAIN required_skills :
                   /\ matched = AtPositions(lowered, idx)
                   /\ missing = AtPositions(lowered, DOMAIN required_skills \ idx)
            /\ Len(matched) + Len(missing) = Len(required_skills)
            /\ result.skills_match.match_percentage >= 0
            /\ result.skills_match.match_percentage <= 10000

\* of "Go", "Cobol", "go" the first and the third are matched
C28_Witness ==
    /\ calls > 0
    /\ ~result.raised
    /\ required_skills = SkillsGoCobolGo
    /\ result.skills_match.matched_skills = << <<"g","o">>, <<"g","o">> >>
    /\ result.skills_match.missing_skills = << <<"c","o","b","o","l">> >>

(***************************************************************************)
(* Properties of the counters of analyze_multiple_resumes (SpecBulk).      *)
(***************************************************************************)
\* C29 (as claimed): in the response of bulk analysis matches +
\* partial_matches + not_matches = total_candidates = the number of
\* candidates = the number of ResumeAnalysis records committed during the
\* request; a file that is skipped or fails stores no record.
C29_BulkCountersAgree ==
    response.returned =>
        /\ response.matches + response.partial_matches + response.not_matches
               = response.total_candidates
        /\ response.total_candidates = Len(response.candidates)
        /\ response.total_candidates = Len(db_analyses)

\* what holds instead: the counters agree with the candidates, every
\* candidate is a committed record, and the committed records are the
\* candidates and the files on which db.refresh() raised
BulkCountersAgreeWithCandidates ==
    response.returned =>
        /\ response.matches + response.partial_matches + response.not_matches
               = response.total_candidates
        /\ response.total_candidates = Len(response.candidates)
        /\ Range(response.candidates) \subseteq Range(db_analyses)
        /\ Len(db_analyses) = Len(response.candidates)
               + Cardinality({k \in DOMAIN server_log :
                                 server_log[k].error = "db: refresh raises"})

(***************************************************************************)
(* Properties of the lazily loaded handle (SpecMatch).                     *)
(***************************************************************************)
\* the call that has just returned left the handle None: constructing the
\* model raised in it
LoadJustFailed == calls' = calls + 1 /\ similarity_pipeline' = "None"

\* what the next call does to the handle, by whether constructing the model
\* succeeds in it: line 279 tests the handle again
NextCallHandle(load_ok) ==
    TrySimilarity(similarity_pipeline, load_ok, model_output).similarity_pipeline

\* the next call constructs the model: the handle it leaves depends on
\* whether the construction succeeds
LoadAttemptedAgain ==
    /\ NextCallHandle(TRUE) = "loaded"
    /\ NextCallHandle(FALSE) = "None"

\* C30: a failed model load does not poison the analyzer: when constructing
\* the embedding model raises, similarity_pipeline stays None and the call
\* returns the Jaccard fallback value; the next call attempts the load again;
\* similarity_pipeline changes only from None to a loaded model and is never
\* reset to None.
C30_FailedLoadDoesNotPoison ==
    [][/\ LoadJustFailed =>
              /\ similarity_pipeline = "None"
              /\ similarity_score' = SimpleTextSimilarity(resume_text, job_description)
              /\ LoadAttemptedAgain'
       /\ similarity_pipeline = "loaded" => similarity_pipeline' = "loaded"]_vars

\* a load has failed in a call whose fallback value differs from what the
\* model would have returned, and a further call can be made
C30_Witness ==
    /\ calls = 1
    /\ similarity_pipeline = "None"
    /\ ~model_output.raises
    /\ similarity_score = SimpleTextSimilarity(resume_text, job_description)
    /\ similarity_score # model_output.cos
    /\ LoadAttemptedAgain

====
